---- MODULE Spec2Model ----
(***************************************************************************)
(* Presence tracking of the Motionlife bot.                                *)
(*                                                                         *)
(* Two discord.ext.tasks loops share one asyncio event loop:               *)
(*   update_server_status (every 30 s): fetch a snapshot, then             *)
(*       AnalyticsManager.update_player_data, log_ping_data and            *)
(*       NotificationManager.check_player_changes;                         *)
(*   cleanup_task (hourly): AnalyticsManager.clean_offline_players.        *)
(* A coroutine runs without interruption between two awaits, so an action  *)
(* of this model is the code between one await and the next; the effect of *)
(* the awaited store operation is applied at the end of the action.        *)
(* Wall-clock time is the variable now, in seconds; it moves in steps of    *)
(* Quantum while both tasks are between runs (a handler finishes within    *)
(* one quantum).                                                           *)
(* The store acknowledges every write under Spec; under StoreSpec it may   *)
(* stop doing so at any moment, and every write from then on raises inside *)
(* DatabaseManager, which logs the error and returns False.                *)
(***************************************************************************)
EXTENDS Integers, Sequences, FiniteSets, TLC

VARIABLES
    now,                  \* datetime.utcnow(), seconds since construction
    nextPoll,             \* scheduled time of the next update_server_status
    lateCount,            \* ticks whose fetch returned one quantum late
    current_players,      \* AnalyticsManager.current_players (insertion-ordered dict)
    session_start_times,  \* AnalyticsManager.session_start_times
    previous_players,     \* NotificationManager.previous_players
    player_join_times,    \* NotificationManager.player_join_times
    players,              \* db.players collection, keyed by name
    event_logs,           \* db.event_logs collection, in insertion order
    ping_logs,            \* db.ping_logs collection, in insertion order
    store_up,             \* the store acknowledges writes
    response,             \* answers of the status source to the tick in progress
    forced,               \* calls of force_player_update so far
    upsert_calls,         \* arguments of the direct calls of upsert_player
    query,                \* the last query made by a reader and its arguments
    result,               \* the value that query returned
    cleanupPc,            \* position of cleanup_old_data
    environ,              \* os.environ after load_dotenv
    startPc,              \* position of main
    tasks_started,        \* setup_hook has started the background tasks
    held,                 \* the value a reader of the presence data was handed
    server_status,        \* MotionlifeBot.server_status (online, ping)
    last_server_online,   \* MotionlifeBot.last_server_online
    status_sent,          \* statuses passed to send_server_status_notification
    pollPc,               \* position of update_server_status
    server_data,          \* local of update_server_status
    idx,                  \* position of the for loop over players_data
    upd_current_time,     \* current_time of update_player_data
    current_player_names, \* local of update_player_data
    left_players,         \* left_players not yet visited by the leave loop
    leave_player,         \* player_name of the leave loop
    session_duration,     \* session_duration of the leave loop
    upd_failed,           \* player whose processing raised in update_player_data
    cleanPc,              \* position of clean_offline_players
    cln_current_time,     \* current_time of clean_offline_players
    offline_players,      \* offline_players not yet visited
    ticks,                \* history: one record per poll tick
    playtime_at_join,     \* history: record playtime when the session started
    last_close            \* history: last session closed by the leave loop

trackVars  == <<current_players, session_start_times>>
notifVars  == <<previous_players, player_join_times>>
dbVars     == <<players, event_logs, ping_logs>>
botVars    == <<server_status, last_server_online, status_sent>>
pollLocals == <<pollPc, server_data, idx, upd_current_time, current_player_names,
                left_players, leave_player, session_duration, upd_failed>>
cleanLocals == <<cleanPc, cln_current_time, offline_players>>
timeVars   == <<now, nextPoll, lateCount>>
histVars   == <<ticks, playtime_at_join, last_close>>
queryVars  == <<query, result>>
startVars  == <<environ, startPc, tasks_started>>
envVars    == <<store_up, response, forced, upsert_calls, queryVars, cleanupPc,
                startVars, held>>

vars == <<timeVars, trackVars, notifVars, dbVars, botVars, pollLocals,
          cleanLocals, histVars, envVars>>

----------------------------------------------------------------------------
(* Program constants *)

PollInterval == 30          \* @tasks.loop(seconds=30)
SessionIncrement == 30      \* session_time_increment = 30
RemainderModulus == 30      \* int(session_duration % 30)
OfflineThreshold == 120     \* timedelta(minutes=2)

(* Bounds of the exploration *)

MaxTime == 135              \* the clock stops here
MaxLongTime == 180          \* the clock of a long run stops here
Quantum == 15               \* granularity of the clock
MaxBlocks == 40             \* blocks of BlockSize samples in a drawn ping log
MaxEvents == 4              \* events in a drawn event log
MaxSamples == 3             \* ping samples in a drawn ping log
MaxUpserts == 3             \* direct calls of upsert_player
MaxForced == 1              \* calls of force_player_update
MaxLate == 1                \* ticks whose fetch may return a quantum late
UtcOffset == 0              \* datetime.now() - datetime.utcnow()

Names == {"A", "B", "C"}
NameOrder == <<"A", "B", "C">>  \* the order in which a set of names is iterated

NoName == "-"
NoValue == 0 - 1            \* a key that is absent from a dict

----------------------------------------------------------------------------
(* Snapshots returned by get_comprehensive_server_data *)

Player(n, p) == [name |-> n, ping |-> p]

Rosters ==
    { <<>>,
      <<Player("A", 40)>>,
      <<Player("B", 60)>>,
      <<Player("A", 40), Player("B", 60)>>,
      <<Player("A", 40), Player("A", 60)>> }

(* Snapshots of a server with three players: two of them play together and *)
(* the third plays alone.                                                  *)
WideRosters ==
    { <<Player("A", 40), Player("B", 60)>>,
      <<Player("C", 0)>> }

ServerPing == 25             \* round(ping_ms, 2) of a status request

OfflineData ==
    [players |-> <<>>, ping |-> 0, online |-> FALSE, clients |-> 0,
     resources |-> <<>>, server_vars |-> {}]

OnlineData(r) ==
    [players |-> r, ping |-> ServerPing, online |-> TRUE, clients |-> Len(r),
     resources |-> <<>>, server_vars |-> {}]

----------------------------------------------------------------------------
(* FiveMAPI.  An answer is what one HTTP request meets: a timeout, a       *)
(* client error, or a status code with a body.  A body is blank, text that *)
(* holds no JSON, JSON, or JSON wrapped in HTML; data is the JSON value it *)
(* holds.  A JSON value keeps what the callers look at: its type, whether  *)
(* it is empty, and the keys clients, vars, resources or the list items.   *)
(* clients is NoValue when int() does not accept it.                       *)

JsonNone ==
    [vars |-> {}, clients |-> 0, resources |-> <<>>, type |-> "none",
     empty |-> TRUE, vars_dict |-> FALSE, items |-> <<>>]

JsonDict(c, vd, v, res) ==
    [vars |-> v, clients |-> c, resources |-> res, type |-> "dict",
     empty |-> FALSE, vars_dict |-> vd, items |-> <<>>]

JsonEmptyDict ==
    [vars |-> {}, clients |-> 0, resources |-> <<>>, type |-> "dict",
     empty |-> TRUE, vars_dict |-> TRUE, items |-> <<>>]

JsonList(items) ==
    [vars |-> {}, clients |-> 0, resources |-> <<>>, type |-> "list",
     empty |-> items = <<>>, vars_dict |-> FALSE, items |-> items]

Answer(kind, status, text, data) ==
    [kind |-> kind, status |-> status, text |-> text, data |-> data]

NoAnswer == Answer("pending", 0, "blank", JsonNone)

TimedOut == Answer("timeout", 0, "blank", JsonNone)

Http(status, text, data) == Answer("http", status, text, data)

(* The request of a tick has not been answered, or the tick has taken the  *)
(* answers.  slow: the two requests that follow the status request take    *)
(* longer than the 10 s of asyncio.wait_for.                               *)
Pending == [players |-> NoAnswer, dynamic |-> NoAnswer, info |-> NoAnswer,
            slow |-> FALSE]

Truthy(data) == data.type # "none" /\ ~data.empty

(* FiveMAPI._parse_json_response: json.loads, or the JSON found in HTML. *)
ParseJsonResponse(text, data) ==
    IF text \in {"json", "html"} THEN data ELSE JsonNone

(* A request that parses whatever body it gets, whatever the status. *)
MakeRequestAnyStatus(a) ==
    IF a.kind # "http" THEN JsonNone
    ELSE IF a.text = "blank" THEN JsonNone
         ELSE ParseJsonResponse(a.text, a.data)

(* FiveMAPI._make_request *)
MakeRequest(a) ==
    IF a.kind # "http" THEN JsonNone
    ELSE IF a.status = 200
         THEN IF a.text = "blank" THEN JsonNone
              ELSE ParseJsonResponse(a.text, a.data)
         ELSE JsonNone

OfflineStatus == [ping |-> 0, online |-> FALSE, clients |-> 0]

(* ping_ms of get_server_status, in milliseconds: start_time is            *)
(* datetime.now(), the local time, and end_time is datetime.utcnow(); the  *)
(* local clock is offset seconds ahead of UTC and the request took         *)
(* elapsed_ms.  round(ping_ms, 2) leaves whole milliseconds as they are.   *)
RequestPing(elapsed_ms, offset) == elapsed_ms - offset * 1000

(* FiveMAPI.get_server_status on a host offset seconds ahead of UTC, for a *)
(* request that took elapsed_ms.  vars_data.get raises when vars is not a  *)
(* dict and int() raises on a malformed count; the except clause returns   *)
(* the offline status.                                                     *)
GetServerStatusIn(a, offset, elapsed_ms) ==
    LET data == MakeRequest(a)
    IN  IF Truthy(data) /\ data.type = "dict"
        THEN IF ~data.vars_dict \/ data.clients = NoValue
             THEN OfflineStatus
             ELSE [ping |-> RequestPing(elapsed_ms, offset), online |-> TRUE,
                   clients |-> data.clients]
        ELSE OfflineStatus

(* FiveMAPI.get_server_status of a tick. *)
GetServerStatus(a) == GetServerStatusIn(a, UtcOffset, ServerPing)

(* str.strip and str.lower on the names the status source reports *)
Strip(name) ==
    CASE name = " A" -> "A"
      [] name = "  " -> ""
      [] OTHER -> name

Lower(name) ==
    CASE name = "A" -> "a"
      [] name = "B" -> "b"
      [] name = "C" -> "c"
      [] name = "Unknown" -> "unknown"
      [] name = "UNKNOWN" -> "unknown"
      [] name = "Null" -> "null"
      [] name = "NULL" -> "null"
      [] OTHER -> name

Accepted(raw) ==
    LET player_name == Strip(raw.name)
    IN  ~(player_name = "" \/ Lower(player_name) \in {"unknown", "", "null"})

(* FiveMAPI.get_players.  int() raises on a malformed ping of an accepted  *)
(* entry; the except clause returns the empty list.                        *)
GetPlayers(a) ==
    LET data == MakeRequest(a)
        kept == SelectSeq(data.items, Accepted)
    IN  IF Truthy(data) /\ data.type = "list"
        THEN IF \E i \in DOMAIN kept : kept[i].ping = NoValue
             THEN <<>>
             ELSE [i \in DOMAIN kept |-> Player(Strip(kept[i].name), kept[i].ping)]
        ELSE <<>>

NoInfo == [vars |-> {}, resources |-> <<>>, found |-> FALSE]

(* FiveMAPI.get_server_info *)
GetServerInfo(a) ==
    LET data == MakeRequest(a)
    IN  IF Truthy(data) /\ data.type = "dict"
        THEN [vars |-> data.vars, resources |-> data.resources,
              found |-> TRUE]
        ELSE NoInfo

(* A fetch that gives the whole snapshot up when one of the two later      *)
(* requests fails.                                                         *)
GetComprehensiveAllOrNothing(r) ==
    LET status_data == GetServerStatus(r.dynamic)
        info_data == IF r.slow THEN NoInfo ELSE GetServerInfo(r.info)
        players_data == IF r.slow THEN <<>> ELSE GetPlayers(r.players)
    IN  IF ~status_data.online \/ ~info_data.found \/ players_data = <<>>
        THEN OfflineData
        ELSE [players |-> players_data, ping |-> status_data.ping,
              online |-> TRUE, clients |-> status_data.clients,
              resources |-> info_data.resources,
              server_vars |-> info_data.vars]

(* FiveMAPI.get_comprehensive_server_data *)
GetComprehensiveServerData(r) ==
    LET status_data == GetServerStatus(r.dynamic)
        info_data == IF r.slow THEN NoInfo ELSE GetServerInfo(r.info)
        players_data == IF r.slow THEN <<>> ELSE GetPlayers(r.players)
    IN  IF ~status_data.online
        THEN OfflineData
        ELSE [players |-> players_data, ping |-> status_data.ping,
              online |-> TRUE, clients |-> status_data.clients,
              resources |-> info_data.resources,
              server_vars |-> info_data.vars]

----------------------------------------------------------------------------
(* The insertion-ordered dict current_players *)

Keys(cp) == {cp[i].name : i \in DOMAIN cp}

Has(cp, n) == n \in Keys(cp)

Get(cp, n) == cp[CHOOSE i \in DOMAIN cp : cp[i].name = n]

Put(cp, e) ==
    IF Has(cp, e.name)
    THEN [i \in DOMAIN cp |-> IF cp[i].name = e.name THEN e ELSE cp[i]]
    ELSE Append(cp, e)

Del(cp, n) == SelectSeq(cp, LAMBDA e : e.name # n)

Without(f, n) == [m \in DOMAIN f \ {n} |-> f[m]]

With(f, n, v) == [m \in DOMAIN f \cup {n} |-> IF m = n THEN v ELSE f[m]]

Entry(n, t, p) == [name |-> n, ping |-> p, last_update |-> t]

InOrder(S) == SelectSeq(NameOrder, LAMBDA n : n \in S)

----------------------------------------------------------------------------
(* DatabaseManager *)

(* A record that cleanup_old_data has not marked has no status field. *)
NoStatus == "none"

(* An upsert that stores the session time instead of adding it. *)
UpsertPlayerOverwrites(pl, n, p, session_time, t) ==
    IF ~store_up THEN pl
    ELSE IF n \in DOMAIN pl
    THEN [pl EXCEPT ![n] = [@ EXCEPT !.lastSeen = t, !.ping = p,
                                     !.playtime = session_time]]
    ELSE With(pl, n, [ping |-> p, status |-> NoStatus, lastSeen |-> t,
                      playtime |-> session_time, firstSeen |-> t,
                      totalSessions |-> 0])

UpsertPlayer(pl, n, p, session_time, t) ==
    IF ~store_up THEN pl
    ELSE IF n \in DOMAIN pl
    THEN [pl EXCEPT ![n] = [@ EXCEPT !.lastSeen = t, !.ping = p,
                                     !.playtime = @ + session_time]]
    ELSE With(pl, n, [ping |-> p, status |-> NoStatus, lastSeen |-> t,
                      playtime |-> session_time, firstSeen |-> t,
                      totalSessions |-> 0])

(* An increment that starts the count again. *)
IncrementPlayerSessionsResets(pl, n) ==
    IF ~store_up THEN pl
    ELSE IF n \in DOMAIN pl
    THEN [pl EXCEPT ![n].totalSessions = 0]
    ELSE pl

IncrementPlayerSessions(pl, n) ==
    IF ~store_up THEN pl
    ELSE IF n \in DOMAIN pl
    THEN [pl EXCEPT ![n].totalSessions = @ + 1]
    ELSE pl

EventEntry(t, type, n, d, r) ==
    [session_duration |-> d, player_name |-> n, timestamp |-> t,
     event_type |-> type, reason |-> r]

LogEvent(ev, t, type, n, d, r) ==
    IF store_up THEN Append(ev, EventEntry(t, type, n, d, r)) ELSE ev

LogEventPlayers(pl, type, n) ==
    IF type = "join" /\ store_up THEN IncrementPlayerSessions(pl, n) ELSE pl

(* DatabaseManager.log_ping_data *)
LogPingData(pg, ping_data) == IF store_up THEN Append(pg, ping_data) ELSE pg

(* The environment of a bot that is running: main has passed Config and    *)
(* bot.start, and setup_hook has started the three loops.                  *)
Settings == {"DISCORD_TOKEN", "MONGODB_URI", "FIVEM_BASE_URL", "GUILD_ID",
             "UPDATE_INTERVAL"}

Missing == "<missing>"

Running ==
    /\ environ = [k \in Settings |->
                     IF k \in {"GUILD_ID", "UPDATE_INTERVAL"} THEN "30" ELSE "x"]
    /\ startPc = "connected"
    /\ tasks_started = TRUE

(* No reader holds presence data.  A held value records the tracker        *)
(* objects it shares with the tracker, and whether its holder changed it.  *)
NoHeld == [op |-> "none", shares |-> {}, value |-> <<>>, mutated |-> FALSE]

(* No reader has asked anything yet. *)
NoQuery == [op |-> "none", arg |-> 0]

NoResult == [none |-> TRUE]

----------------------------------------------------------------------------
Init ==
    /\ now = 0
    /\ nextPoll = 0
    /\ lateCount = 0
    /\ current_players = <<>>
    /\ session_start_times = [n \in {} |-> 0]
    /\ previous_players = {}
    /\ player_join_times = [n \in {} |-> 0]
    /\ players = [n \in {} |-> 0]
    /\ event_logs = <<>>
    /\ ping_logs = <<>>
    /\ store_up = TRUE
    /\ response = Pending
    /\ forced = 0
    /\ upsert_calls = <<>>
    /\ query = NoQuery
    /\ result = NoResult
    /\ cleanupPc = "idle"
    /\ held = NoHeld
    /\ Running
    /\ server_status = [ping |-> 0, online |-> FALSE]
    /\ last_server_online = FALSE
    /\ status_sent = <<>>
    /\ pollPc = "idle"
    /\ server_data = OfflineData
    /\ idx = 0
    /\ upd_current_time = 0
    /\ current_player_names = {}
    /\ left_players = <<>>
    /\ leave_player = NoName
    /\ session_duration = NoValue
    /\ upd_failed = NoName
    /\ cleanPc = "idle"
    /\ cln_current_time = 0
    /\ offline_players = <<>>
    /\ ticks = <<>>
    /\ playtime_at_join = [n \in {} |-> 0]
    /\ last_close = [name |-> NoName, duration |-> NoValue, credited |-> NoValue]
----------------------------------------------------------------------------
(* Time.  tasks.loop schedules a tick every PollInterval seconds; the      *)
(* clock is read after `await get_comprehensive_server_data()`, which      *)
(* returns at the scheduled time or one quantum later (at most MaxLate     *)
(* times in a behaviour).                                                  *)

Advance ==
    /\ pollPc = "idle"
    /\ cleanPc = "idle"
    /\ now + Quantum <= MaxTime
    /\ \/ now < nextPoll
       \/ lateCount < MaxLate /\ now < nextPoll + Quantum
    /\ now' = now + Quantum
    /\ lateCount' = IF now >= nextPoll THEN lateCount + 1 ELSE lateCount
    /\ UNCHANGED <<nextPoll, trackVars, notifVars, dbVars, botVars, pollLocals,
                   cleanLocals, histVars, envVars>>

LocalNow == now + UtcOffset

----------------------------------------------------------------------------
(* AnalyticsManager.log_ping_data.  The pings of Rosters are such that the *)
(* mean sum / len is a whole number.                                       *)

RECURSIVE SumSeq(_)
SumSeq(s) == IF s = <<>> THEN 0 ELSE Head(s) + SumSeq(Tail(s))

SeqMin(s) == CHOOSE x \in {s[i] : i \in DOMAIN s} : \A i \in DOMAIN s : x <= s[i]

SeqMax(s) == CHOOSE x \in {s[i] : i \in DOMAIN s} : \A i \in DOMAIN s : x >= s[i]

PlayerPings(cp) ==
    LET positive == SelectSeq(cp, LAMBDA e : e.ping > 0)
    IN  [i \in DOMAIN positive |-> positive[i].ping]

(* Ping statistics over every tracked ping, the pings that are 0 included. *)
PingStatsCountsAll(cp, server_ping) ==
    LET player_pings == [i \in DOMAIN cp |-> cp[i].ping]
    IN  IF player_pings = <<>>
        THEN [timestamp |-> now, server_ping |-> server_ping,
              low |-> server_ping, avg |-> server_ping, high |-> server_ping]
        ELSE [timestamp |-> now, server_ping |-> server_ping,
              low |-> SeqMin(player_pings),
              avg |-> SumSeq(player_pings) \div Len(player_pings),
              high |-> SeqMax(player_pings)]

PingStats(cp, server_ping) ==
    LET player_pings == PlayerPings(cp)
    IN  IF player_pings = <<>>
        THEN [timestamp |-> now, server_ping |-> server_ping,
              low |-> server_ping, avg |-> server_ping, high |-> server_ping]
        ELSE [timestamp |-> now, server_ping |-> server_ping,
              low |-> SeqMin(player_pings),
              avg |-> SumSeq(player_pings) \div Len(player_pings),
              high |-> SeqMax(player_pings)]

----------------------------------------------------------------------------
(* AnalyticsManager.update_player_data *)

ValidPlayers(players_data) ==
    SelectSeq(players_data, LAMBDA e : e.name # "" /\ e.name # "Unknown")

Orders(S) ==
    {s \in [1..Cardinality(S) -> S] : \A i, j \in DOMAIN s : s[i] = s[j] => i = j}

(* A loop over names that deletes, without awaiting, every leading name    *)
(* that has no session start time; del raises KeyError on a missing key.   *)
RECURSIVE DropUntimed(_, _, _)
DropUntimed(cp, sst, lst) ==
    IF lst = <<>> THEN [cp |-> cp, rest |-> <<>>, failed |-> NoName]
    ELSE IF Head(lst) \in DOMAIN sst THEN [cp |-> cp, rest |-> lst, failed |-> NoName]
    ELSE IF ~Has(cp, Head(lst)) THEN [cp |-> cp, rest |-> <<>>, failed |-> Head(lst)]
    ELSE DropUntimed(Del(cp, Head(lst)), sst, Tail(lst))

(* update_player_data has returned, or the processing of player failed    *)
(* has raised and the except clause that encloses both loops has logged    *)
(* the error; log_ping_data runs up to its await of db.log_ping_data.      *)
PingBlock(cp, sst, lc, failed) ==
    /\ current_players' = cp
    /\ session_start_times' = sst
    /\ last_close' = lc
    /\ upd_failed' = failed
    /\ ping_logs' = LogPingData(ping_logs, PingStats(cp, server_status.ping))
    /\ pollPc' = "ping"
    /\ left_players' = <<>>
    /\ leave_player' = NoName
    /\ session_duration' = NoValue
    /\ UNCHANGED <<players, event_logs, idx, current_player_names, playtime_at_join>>

(* The leave loop from the top of an iteration to its next await. *)
LeftBody(cp, sst, lst, lc) ==
    LET r == DropUntimed(cp, sst, lst)
        player_name == Head(r.rest)
        duration == upd_current_time - sst[player_name]
    IN  IF r.rest = <<>>
        THEN PingBlock(r.cp, sst, lc, r.failed)
        ELSE /\ current_players' = r.cp
             /\ session_start_times' = sst
             /\ last_close' = lc
             /\ upd_failed' = NoName
             /\ event_logs' = LogEvent(event_logs, now, "leave", player_name,
                                       duration, "none")
             /\ players' = LogEventPlayers(players, "leave", player_name)
             /\ pollPc' = "leave_logged"
             /\ left_players' = Tail(r.rest)
             /\ leave_player' = player_name
             /\ session_duration' = duration
             /\ UNCHANGED <<ping_logs, idx, current_player_names, playtime_at_join>>

(* A loop that sets the session start of every roster player, tracked or  *)
(* not.                                                                    *)
LoopBodyRestartsSession(i, current_time, names) ==
    LET player == ValidPlayers(server_data'.players)[i]
        player_name == player.name
    IN  /\ current_player_names' = names \cup {player_name}
        /\ IF ~Has(current_players, player_name)
           THEN /\ session_start_times' =
                       With(session_start_times, player_name, current_time)
                /\ event_logs' = LogEvent(event_logs, now, "join", player_name,
                                          NoValue, "none")
                /\ players' = LogEventPlayers(players, "join", player_name)
                /\ playtime_at_join' =
                       With(playtime_at_join, player_name,
                            IF player_name \in DOMAIN players
                            THEN players[player_name].playtime ELSE 0)
                /\ pollPc' = "joined"
                /\ idx' = i
                /\ UNCHANGED current_players
           ELSE /\ current_players' =
                       Put(current_players,
                           Entry(player_name, current_time, player.ping))
                /\ players' = UpsertPlayer(players, player_name, player.ping,
                                           SessionIncrement, now)
                /\ pollPc' = "loop"
                /\ idx' = i + 1
                /\ session_start_times' =
                       With(session_start_times, player_name, current_time)
                /\ UNCHANGED <<event_logs, playtime_at_join>>
        /\ UNCHANGED <<ping_logs, left_players, leave_player, session_duration,
                       upd_failed, last_close>>

(* The join/update loop from the top of iteration i to its next await. *)
LoopBody(i, current_time, names) ==
    LET player == ValidPlayers(server_data'.players)[i]
        player_name == player.name
    IN  /\ current_player_names' = names \cup {player_name}
        /\ IF ~Has(current_players, player_name)
           THEN /\ session_start_times' =
                       With(session_start_times, player_name, current_time)
                /\ event_logs' = LogEvent(event_logs, now, "join", player_name,
                                          NoValue, "none")
                /\ players' = LogEventPlayers(players, "join", player_name)
                /\ playtime_at_join' =
                       With(playtime_at_join, player_name,
                            IF player_name \in DOMAIN players
                            THEN players[player_name].playtime ELSE 0)
                /\ pollPc' = "joined"
                /\ idx' = i
                /\ UNCHANGED current_players
           ELSE /\ current_players' =
                       Put(current_players,
                           Entry(player_name, current_time, player.ping))
                /\ players' = UpsertPlayer(players, player_name, player.ping,
                                           SessionIncrement, now)
                /\ pollPc' = "loop"
                /\ idx' = i + 1
                /\ UNCHANGED <<session_start_times, event_logs, playtime_at_join>>
        /\ UNCHANGED <<ping_logs, left_players, leave_player, session_duration,
                       upd_failed, last_close>>
----------------------------------------------------------------------------
(* MotionlifeBot.update_server_status.  The three calls it awaits catch    *)
(* every exception themselves, so its own except clause is not entered.    *)

TickRecord(sd, finished) ==
    [online |-> sd.online, failed |-> NoName,
     names |-> {sd.players[i].name : i \in DOMAIN sd.players}, at |-> now,
     tracked_before |-> Keys(current_players),
     playtime_before |-> [n \in DOMAIN players |-> players[n].playtime],
     log_start |-> Len(event_logs), log_end |-> Len(event_logs),
     tracked_after |-> Keys(current_players), done |-> finished]

(* An offline branch that takes the outage for a departure of everybody. *)
PollOfflineClears ==
    /\ pollPc = "idle"
    /\ now >= nextPoll
    /\ nextPoll' = nextPoll + PollInterval
    /\ response' = Pending
    /\ server_data' = OfflineData
    /\ server_status' = [ping |-> 0, online |-> FALSE]
    /\ status_sent' = IF last_server_online
                      THEN Append(status_sent, "offline") ELSE status_sent
    /\ last_server_online' = FALSE
    /\ ticks' = Append(ticks, TickRecord(OfflineData, TRUE))
    /\ current_players' = <<>>
    /\ session_start_times' = [n \in {} |-> 0]
    /\ UNCHANGED <<now, lateCount, notifVars, dbVars, pollPc, idx,
                   upd_current_time, current_player_names, left_players,
                   leave_player, session_duration, upd_failed, cleanLocals,
                   playtime_at_join, last_close, store_up, forced,
                   upsert_calls, queryVars, cleanupPc,
                   startVars, held>>

(* The fetch returned an offline snapshot, or None after a failure. *)
PollOffline ==
    /\ pollPc = "idle"
    /\ now >= nextPoll
    /\ nextPoll' = nextPoll + PollInterval
    /\ response' = Pending
    /\ server_data' = OfflineData
    /\ server_status' = [ping |-> 0, online |-> FALSE]
    /\ status_sent' = IF last_server_online
                      THEN Append(status_sent, "offline") ELSE status_sent
    /\ last_server_online' = FALSE
    /\ ticks' = Append(ticks, TickRecord(OfflineData, TRUE))
    /\ UNCHANGED <<now, lateCount, trackVars, notifVars, dbVars, pollPc, idx,
                   upd_current_time, current_player_names, left_players,
                   leave_player, session_duration, upd_failed, cleanLocals,
                   playtime_at_join, last_close, store_up, forced,
                   upsert_calls, queryVars, cleanupPc,
                   startVars, held>>

(* An online tick that reports "online" whatever the last known state. *)
PollOnlineEmptyAlwaysNotifies(pool) ==
    /\ pollPc = "idle"
    /\ now >= nextPoll
    /\ nextPoll' = nextPoll + PollInterval
    /\ response' = Pending
    /\ \E sd \in pool : server_data' = sd
    /\ server_status' = [ping |-> server_data'.ping, online |-> TRUE]
    /\ status_sent' = Append(status_sent, "online")
    /\ last_server_online' = TRUE
    /\ ticks' = Append(ticks, TickRecord(server_data', TRUE))
    /\ UNCHANGED <<now, lateCount, trackVars, notifVars, dbVars, pollPc, idx,
                   upd_current_time, current_player_names, left_players,
                   leave_player, session_duration, upd_failed, cleanLocals,
                   playtime_at_join, last_close, store_up, forced,
                   upsert_calls, queryVars, cleanupPc,
                   startVars, held>>

(* The fetch returned an online snapshot whose players list is empty:      *)
(* `if players_data:` skips the three calls.                               *)
PollOnlineEmptyFrom(pool) ==
    /\ pollPc = "idle"
    /\ now >= nextPoll
    /\ nextPoll' = nextPoll + PollInterval
    /\ response' = Pending
    /\ \E sd \in pool : server_data' = sd
    /\ server_status' = [ping |-> server_data'.ping, online |-> TRUE]
    /\ status_sent' = IF ~last_server_online
                      THEN Append(status_sent, "online") ELSE status_sent
    /\ last_server_online' = TRUE
    /\ ticks' = Append(ticks, TickRecord(server_data', TRUE))
    /\ UNCHANGED <<now, lateCount, trackVars, notifVars, dbVars, pollPc, idx,
                   upd_current_time, current_player_names, left_players,
                   leave_player, session_duration, upd_failed, cleanLocals,
                   playtime_at_join, last_close, store_up, forced,
                   upsert_calls, queryVars, cleanupPc,
                   startVars, held>>

PollOnlineEmpty == PollOnlineEmptyFrom({OnlineData(<<>>)})

(* A tick that is also started while the previous one is suspended at an   *)
(* await of update_player_data.                                            *)
PollOnlineReentrant ==
    /\ pollPc \in {"idle", "joined", "loop"}
    /\ pollPc = "idle" => now >= nextPoll
    /\ nextPoll' = nextPoll + PollInterval
    /\ response' = Pending
    /\ \E r \in Rosters \ {<<>>} : server_data' = OnlineData(r)
    /\ server_status' = [ping |-> server_data'.ping, online |-> TRUE]
    /\ upd_current_time' = now
    /\ ticks' = Append(ticks, TickRecord(server_data', FALSE))
    /\ LoopBody(1, now, {})
    /\ UNCHANGED <<now, lateCount, notifVars, last_server_online, status_sent,
                   cleanLocals, store_up, forced,
                   upsert_calls, queryVars, cleanupPc,
                   startVars, held>>

(* The fetch returned an online snapshot with players: update_player_data  *)
(* starts and runs to the first await of its loop.  tasks.loop awaits the  *)
(* coroutine before it schedules the next run.                             *)
PollOnlineFrom(pool) ==
    /\ pollPc = "idle"
    /\ now >= nextPoll
    /\ nextPoll' = nextPoll + PollInterval
    /\ response' = Pending
    /\ \E sd \in pool : server_data' = sd
    /\ server_status' = [ping |-> server_data'.ping, online |-> TRUE]
    /\ upd_current_time' = now
    /\ ticks' = Append(ticks, TickRecord(server_data', FALSE))
    /\ LoopBody(1, now, {})
    /\ UNCHANGED <<now, lateCount, notifVars, last_server_online, status_sent,
                   cleanLocals, store_up, forced,
                   upsert_calls, queryVars, cleanupPc,
                   startVars, held>>

PollOnline == PollOnlineFrom({OnlineData(r) : r \in Rosters \ {<<>>}})

PollOnlineWide == PollOnlineFrom({OnlineData(r) : r \in WideRosters})

(* update_server_status on the snapshot that get_comprehensive_server_data *)
(* computes from the answers of the status source.                         *)
PollFetched ==
    /\ response # Pending
    /\ LET sd == GetComprehensiveServerData(response)
       IN  IF ~sd.online THEN PollOffline
           ELSE IF sd.players = <<>> THEN PollOnlineEmptyFrom({sd})
           ELSE PollOnlineFrom({sd})

(* A join branch that undoes the session start when log_event returned     *)
(* False.                                                                  *)
PollJoinedRollsBack ==
    /\ pollPc = "joined"
    /\ LET player == ValidPlayers(server_data.players)[idx]
       IN  IF store_up
           THEN /\ current_players' =
                       Put(current_players,
                           Entry(player.name, upd_current_time, player.ping))
                /\ players' = UpsertPlayer(players, player.name, player.ping, 0, now)
                /\ UNCHANGED session_start_times
           ELSE /\ session_start_times' = Without(session_start_times, player.name)
                /\ UNCHANGED <<current_players, players>>
    /\ pollPc' = "loop"
    /\ idx' = idx + 1
    /\ UNCHANGED <<timeVars, notifVars, event_logs,
                   ping_logs, botVars, server_data, upd_current_time,
                   current_player_names, left_players, leave_player,
                   session_duration, upd_failed, cleanLocals, histVars, envVars>>

(* Resumed after `await self.db.log_event('join', ...)`. *)
PollJoined ==
    /\ pollPc = "joined"
    /\ LET player == ValidPlayers(server_data.players)[idx]
       IN  /\ current_players' =
                  Put(current_players,
                      Entry(player.name, upd_current_time, player.ping))
           /\ players' = UpsertPlayer(players, player.name, player.ping, 0, now)
    /\ pollPc' = "loop"
    /\ idx' = idx + 1
    /\ UNCHANGED <<timeVars, session_start_times, notifVars, event_logs,
                   ping_logs, botVars, server_data, upd_current_time,
                   current_player_names, left_players, leave_player,
                   session_duration, upd_failed, cleanLocals, histVars, envVars>>

(* Resumed after `await self.db.upsert_player(...)` of the loop. *)
PollLoop ==
    /\ pollPc = "loop"
    /\ UNCHANGED <<timeVars, notifVars, botVars, server_data, upd_current_time,
                   cleanLocals, ticks, envVars>>
    /\ IF idx <= Len(ValidPlayers(server_data.players))
       THEN LoopBody(idx, upd_current_time, current_player_names)
       ELSE \E order \in Orders(Keys(current_players) \ current_player_names) :
                LeftBody(current_players, session_start_times, order, last_close)

(* del self.session_start_times[player_name]; del self.current_players[..] *)
DeleteAndContinue ==
    LET player_name == leave_player
    IN  IF player_name \notin DOMAIN session_start_times
        THEN PingBlock(current_players, session_start_times, last_close,
                       player_name)
        ELSE IF ~Has(current_players, player_name)
        THEN PingBlock(current_players,
                       Without(session_start_times, player_name), last_close,
                       player_name)
        ELSE LeftBody(Del(current_players, player_name),
                      Without(session_start_times, player_name),
                      left_players,
                      [name |-> player_name, duration |-> session_duration,
                       credited |-> (IF player_name \in DOMAIN players
                                     THEN players[player_name].playtime ELSE 0)
                                    - playtime_at_join[player_name]])

(* Resumed after `await self.db.log_event('leave', ...)`. *)
PollLeaveLogged ==
    /\ pollPc = "leave_logged"
    /\ UNCHANGED <<timeVars, notifVars, botVars, server_data, upd_current_time,
                   cleanLocals, ticks, envVars>>
    /\ LET remaining_time == session_duration % RemainderModulus
       IN  IF remaining_time > 0
           THEN IF ~Has(current_players, leave_player)
                THEN PingBlock(current_players, session_start_times, last_close,
                               leave_player)
                ELSE /\ players' =
                            UpsertPlayer(players, leave_player,
                                         Get(current_players, leave_player).ping,
                                         remaining_time, now)
                     /\ pollPc' = "leave_flushed"
                     /\ UNCHANGED <<trackVars, event_logs, ping_logs, idx,
                                    current_player_names, left_players,
                                    leave_player, session_duration, upd_failed,
                                    playtime_at_join, last_close>>
           ELSE DeleteAndContinue

(* Resumed after the `await self.db.upsert_player(...)` of the remainder. *)
PollLeaveFlushed ==
    /\ pollPc = "leave_flushed"
    /\ UNCHANGED <<timeVars, notifVars, botVars, server_data, upd_current_time,
                   cleanLocals, ticks, envVars>>
    /\ DeleteAndContinue

----------------------------------------------------------------------------
(* NotificationManager.check_player_changes, and the end of the tick.      *)
(* It reads and writes only previous_players and player_join_times, which  *)
(* no other task touches, and appends to the event log.                    *)

JoinEvents(joined_players) ==
    [i \in DOMAIN InOrder(joined_players) |->
        EventEntry(now, "join", InOrder(joined_players)[i], NoValue, "none")]

LeaveEvents(left) ==
    [i \in DOMAIN InOrder(left) |->
        EventEntry(now, "leave", InOrder(left)[i],
                   IF InOrder(left)[i] \in DOMAIN player_join_times
                   THEN LocalNow - player_join_times[InOrder(left)[i]]
                   ELSE 0,
                   "none")]

PollNotify ==
    /\ pollPc = "ping"
    /\ LET current == {server_data.players[i].name : i \in
                          {j \in DOMAIN server_data.players :
                              server_data.players[j].name # ""}}
           joined_players == current \ previous_players
           left == previous_players \ current
       IN  /\ event_logs' = IF store_up
                             THEN event_logs \o JoinEvents(joined_players)
                                             \o LeaveEvents(left)
                             ELSE event_logs
           /\ players' = [n \in DOMAIN players |->
                             IF n \in joined_players /\ store_up
                             THEN [players[n] EXCEPT !.totalSessions = @ + 1]
                             ELSE players[n]]
           /\ previous_players' = current
           /\ player_join_times' =
                  [n \in (DOMAIN player_join_times \cup current) \ left |->
                      IF n \in DOMAIN player_join_times
                      THEN player_join_times[n] ELSE LocalNow]
    /\ status_sent' = IF ~last_server_online
                      THEN Append(status_sent, "online") ELSE status_sent
    /\ last_server_online' = TRUE
    /\ pollPc' = "idle"
    /\ ticks' = [ticks EXCEPT ![Len(ticks)] =
                    [@ EXCEPT !.log_end = Len(event_logs'),
                              !.tracked_after = Keys(current_players),
                              !.failed = upd_failed,
                              !.done = TRUE]]
    /\ upd_failed' = NoName
    /\ UNCHANGED <<timeVars, trackVars, ping_logs, server_status, server_data,
                   idx, upd_current_time, current_player_names, left_players,
                   leave_player, session_duration, cleanLocals,
                   playtime_at_join, last_close, envVars>>

----------------------------------------------------------------------------
(* AnalyticsManager.clean_offline_players, run by cleanup_task.  The       *)
(* period of cleanup_task is longer than MaxTime, so a run may begin at    *)
(* any instant: its phase against the sessions is arbitrary.               *)

(* The comparison with its operands the wrong way round. *)
IsOfflineSwapped(data, current_time) ==
    data.last_update - current_time > OfflineThreshold

IsOffline(data, current_time) ==
    current_time - data.last_update > OfflineThreshold

OfflinePlayers(cp, current_time) ==
    LET stale == SelectSeq(cp, LAMBDA data : IsOffline(data, current_time))
    IN  [i \in DOMAIN stale |-> stale[i].name]

(* clean_offline_players returns, or its except clause logs the error;    *)
(* its locals are dead.                                                    *)
CleanReturn ==
    /\ cleanPc' = "idle"
    /\ cln_current_time' = 0
    /\ offline_players' = <<>>

(* The removal loop from the top of an iteration to its next await. *)
CleanBody(cp, sst, lst, current_time) ==
    LET r == DropUntimed(cp, sst, lst)
        player_name == Head(r.rest)
    IN  /\ current_players' = r.cp
        /\ session_start_times' = sst
        /\ IF r.rest = <<>>
           THEN /\ CleanReturn
                /\ UNCHANGED event_logs
           ELSE /\ event_logs' = LogEvent(event_logs, now, "leave", player_name,
                                          current_time - sst[player_name],
                                          "timeout")
                /\ cleanPc' = "logged"
                /\ cln_current_time' = current_time
                /\ offline_players' = r.rest

CleanStart ==
    /\ cleanPc = "idle"
    /\ CleanBody(current_players, session_start_times,
                 OfflinePlayers(current_players, now), now)
    /\ UNCHANGED <<timeVars, notifVars, players, ping_logs, botVars, pollLocals,
                   histVars, envVars>>

(* A reaper that drops the session start and keeps the tracked entry. *)
CleanLoggedKeepsEntry ==
    /\ cleanPc = "logged"
    /\ LET player_name == Head(offline_players)
       IN  IF player_name \notin DOMAIN session_start_times
           THEN /\ CleanReturn
                /\ UNCHANGED <<trackVars, event_logs>>
           ELSE IF ~Has(current_players, player_name)
           THEN /\ session_start_times' = Without(session_start_times, player_name)
                /\ CleanReturn
                /\ UNCHANGED <<current_players, event_logs>>
           ELSE CleanBody(current_players,
                          Without(session_start_times, player_name),
                          Tail(offline_players), cln_current_time)
    /\ UNCHANGED <<timeVars, notifVars, players, ping_logs, botVars, pollLocals,
                   histVars, envVars>>

(* Resumed after `await self.db.log_event('leave', ..., 'timeout')`. *)
CleanLogged ==
    /\ cleanPc = "logged"
    /\ LET player_name == Head(offline_players)
       IN  IF player_name \notin DOMAIN session_start_times
           THEN /\ CleanReturn
                /\ UNCHANGED <<trackVars, event_logs>>
           ELSE IF ~Has(current_players, player_name)
           THEN /\ session_start_times' = Without(session_start_times, player_name)
                /\ CleanReturn
                /\ UNCHANGED <<current_players, event_logs>>
           ELSE CleanBody(Del(current_players, player_name),
                          Without(session_start_times, player_name),
                          Tail(offline_players), cln_current_time)
    /\ UNCHANGED <<timeVars, notifVars, players, ping_logs, botVars, pollLocals,
                   histVars, envVars>>

----------------------------------------------------------------------------
Next ==
    \/ Advance
    \/ PollOffline
    \/ PollOnlineEmpty
    \/ PollOnline
    \/ PollJoined
    \/ PollLoop
    \/ PollLeaveLogged
    \/ PollLeaveFlushed
    \/ PollNotify
    \/ CleanStart
    \/ CleanLogged

Spec == Init /\ [][Next]_vars

(* The same program against a server with three players. *)
WideNext ==
    \/ Advance
    \/ PollOffline
    \/ PollOnlineEmpty
    \/ PollOnlineWide
    \/ PollJoined
    \/ PollLoop
    \/ PollLeaveLogged
    \/ PollLeaveFlushed
    \/ PollNotify
    \/ CleanStart
    \/ CleanLogged

WideSpec == Init /\ [][WideNext]_vars

(* The status source answers the three requests of the tick that is due. *)
SourceAnswersFrom(pool) ==
    /\ pollPc = "idle"
    /\ now >= nextPoll
    /\ response = Pending
    /\ response' \in pool
    /\ UNCHANGED <<timeVars, trackVars, notifVars, dbVars, botVars, pollLocals,
                   cleanLocals, histVars, store_up, forced,
                   upsert_calls, queryVars, cleanupPc,
                   startVars, held>>

GoodDynamic == Http(200, "json", JsonDict(1, TRUE, {}, <<>>))

FailedDynamic ==
    { TimedOut,
      Http(503, "blank", JsonNone),
      Http(503, "json", JsonDict(1, TRUE, {}, <<>>)),
      Http(200, "blank", JsonNone),
      Http(200, "text", JsonNone) }

RawPlayer(n, p) == [name |-> n, ping |-> p]

GoodPlayers ==
    { Http(200, "json", JsonList(<<RawPlayer("A", 40)>>)),
      Http(200, "json", JsonList(<<RawPlayer("B", 60)>>)) }

FailedPlayers ==
    { TimedOut,
      Http(200, "text", JsonNone),
      Http(200, "json", JsonDict(0, TRUE, {}, <<>>)) }

GoodInfo == Http(200, "json", JsonDict(0, TRUE, {"sv_tags"}, <<"core">>))

FailedInfo ==
    { TimedOut,
      Http(200, "json", JsonList(<<>>)) }

Responses ==
    {[players |-> NoAnswer, dynamic |-> d, info |-> NoAnswer, slow |-> FALSE] :
        d \in FailedDynamic}
    \cup
    {[players |-> a, dynamic |-> GoodDynamic, info |-> b, slow |-> sl] :
        a \in GoodPlayers \cup FailedPlayers, b \in {GoodInfo} \cup FailedInfo,
        sl \in BOOLEAN}

SourceAnswers == SourceAnswersFrom(Responses)

(* FiveMAPI.get_server_status called on hosts in several time zones, for   *)
(* requests of several durations.                                          *)
Zones == {0 - 5 * 3600, 0, 3600, 7 * 3600}

ElapsedMs == {0, 1, ServerPing, 300, 5000}

RequestStatus ==
    /\ \E a \in {GoodDynamic} \cup FailedDynamic, zone \in Zones,
          elapsed \in ElapsedMs :
           /\ query' = [op |-> "get_server_status",
                        arg |-> [zone |-> zone, elapsed |-> elapsed,
                                 answer |-> a]]
           /\ result' = [value |-> GetServerStatusIn(a, zone, elapsed),
                         none |-> FALSE]
    /\ UNCHANGED <<timeVars, trackVars, notifVars, dbVars, botVars, pollLocals,
                   cleanLocals, histVars, store_up, response, forced,
                   upsert_calls, cleanupPc, startVars, held>>

ZoneNext == RequestStatus

ZoneSpec == Init /\ [][ZoneNext]_vars

(* The program with its fetch: the snapshot of a tick is computed from the *)
(* answers of the status source.                                           *)
FetchNext ==
    \/ Advance
    \/ SourceAnswers
    \/ PollFetched
    \/ PollJoined
    \/ PollLoop
    \/ PollLeaveLogged
    \/ PollLeaveFlushed
    \/ PollNotify
    \/ CleanStart
    \/ CleanLogged

FetchSpec == Init /\ [][FetchNext]_vars

(* Rosters as the status source reports them, with names that are empty,  *)
(* sentinels, or sentinels in another case.                                *)
RawRosters ==
    { <<RawPlayer("A", 40), RawPlayer("Unknown", 10)>>,
      <<RawPlayer("", 10), RawPlayer("B", 60)>>,
      <<RawPlayer("null", 10)>>,
      <<RawPlayer("unknown", 10), RawPlayer("A", 40)>>,
      <<RawPlayer("NULL", 10)>> }

NameResponses ==
    {[players |-> Http(200, "json", JsonList(r)), dynamic |-> GoodDynamic,
      info |-> GoodInfo, slow |-> FALSE] : r \in RawRosters}

SourceAnswersNames == SourceAnswersFrom(NameResponses)

NameNext ==
    \/ Advance
    \/ SourceAnswersNames
    \/ PollFetched
    \/ PollJoined
    \/ PollLoop
    \/ PollLeaveLogged
    \/ PollLeaveFlushed
    \/ PollNotify
    \/ CleanStart
    \/ CleanLogged

NameSpec == Init /\ [][NameNext]_vars

(* AnalyticsManager.force_player_update(player_name), called by another   *)
(* coroutine while no poll tick is between two awaits.  Its only await is   *)
(* the upsert, so the call is one step.                                    *)
ForcePlayerUpdate ==
    /\ forced < MaxForced
    /\ pollPc = "idle"
    /\ forced' = forced + 1
    /\ \E player_name \in Names :
           IF Has(current_players, player_name)
           THEN LET player_data == Get(current_players, player_name)
                    session_time ==
                        IF player_name \in DOMAIN session_start_times
                        THEN now - session_start_times[player_name]
                        ELSE 0
                IN  players' = UpsertPlayer(players, player_name, player_data.ping,
                                            session_time, now)
           ELSE UNCHANGED players
    /\ UNCHANGED <<timeVars, trackVars, notifVars, event_logs, ping_logs, botVars,
                   pollLocals, cleanLocals, histVars, store_up, response,
                   upsert_calls, queryVars, cleanupPc,
                   startVars, held>>

(* An online server whose single player is A or B. *)
PollOnlineSingle ==
    PollOnlineFrom({OnlineData(<<Player("A", 40)>>), OnlineData(<<Player("B", 60)>>)})

ForceNext ==
    \/ Advance
    \/ PollOffline
    \/ PollOnlineSingle
    \/ PollJoined
    \/ PollLoop
    \/ PollLeaveLogged
    \/ PollLeaveFlushed
    \/ PollNotify
    \/ CleanStart
    \/ CleanLogged
    \/ ForcePlayerUpdate

ForceSpec == Init /\ [][ForceNext]_vars

(* DatabaseManager.upsert_player called on its own, with any name and any  *)
(* of the session times its callers pass.                                  *)
SessionTimes == {0, 10, 20, SessionIncrement}

UpsertCall ==
    /\ Len(upsert_calls) < MaxUpserts
    /\ \E name \in Names, session_time \in SessionTimes :
           /\ players' = UpsertPlayer(players, name, 40, session_time, now)
           /\ upsert_calls' = Append(upsert_calls,
                                     [name |-> name, session_time |-> session_time])
    /\ UNCHANGED <<timeVars, trackVars, notifVars, event_logs, ping_logs, botVars,
                   pollLocals, cleanLocals, histVars, store_up, response, forced,
                   queryVars, cleanupPc,
                   startVars, held>>

UpsertNext == UpsertCall

UpsertSpec == Init /\ [][UpsertNext]_vars

(* A run long enough for a player to time out, come back and leave: the   *)
(* clock of Advance with a later end.                                      *)
AdvanceLong ==
    /\ pollPc = "idle"
    /\ cleanPc = "idle"
    /\ now + Quantum <= MaxLongTime
    /\ \/ now < nextPoll
       \/ lateCount < MaxLate /\ now < nextPoll + Quantum
    /\ now' = now + Quantum
    /\ lateCount' = IF now >= nextPoll THEN lateCount + 1 ELSE lateCount
    /\ UNCHANGED <<nextPoll, trackVars, notifVars, dbVars, botVars, pollLocals,
                   cleanLocals, histVars, envVars>>

LongNext ==
    \/ AdvanceLong
    \/ PollOffline
    \/ PollOnlineSingle
    \/ PollJoined
    \/ PollLoop
    \/ PollLeaveLogged
    \/ PollLeaveFlushed
    \/ PollNotify
    \/ CleanStart
    \/ CleanLogged

LongSpec == Init /\ [][LongNext]_vars

(* The store stops acknowledging writes: from here on insert_one and        *)
(* update_one raise, and the except clauses of DatabaseManager return      *)
(* False.                                                                  *)
StoreFails ==
    /\ store_up
    /\ store_up' = FALSE
    /\ UNCHANGED <<timeVars, trackVars, notifVars, dbVars, botVars, pollLocals,
                   cleanLocals, histVars, response, forced,
                   upsert_calls, queryVars, cleanupPc,
                   startVars, held>>

StoreNext == WideNext \/ StoreFails

StoreSpec == Init /\ [][StoreNext]_vars
----------------------------------------------------------------------------
(* Readers of the store.  A reader is handed a store that earlier ticks    *)
(* filled: the state after construction with the clock at t, the           *)
(* collections pl, ev, pg in the store and cp, sst in the tracker.         *)

Constructed(t, pl, ev, pg, cp, sst) ==
    /\ now = t
    /\ nextPoll = t
    /\ lateCount = 0
    /\ current_players = cp
    /\ session_start_times = sst
    /\ previous_players = {}
    /\ player_join_times = [n \in {} |-> 0]
    /\ players = pl
    /\ event_logs = ev
    /\ ping_logs = pg
    /\ store_up = TRUE
    /\ response = Pending
    /\ forced = 0
    /\ upsert_calls = <<>>
    /\ query = NoQuery
    /\ result = NoResult
    /\ cleanupPc = "idle"
    /\ held = NoHeld
    /\ server_status = [ping |-> 0, online |-> FALSE]
    /\ last_server_online = FALSE
    /\ status_sent = <<>>
    /\ pollPc = "idle"
    /\ server_data = OfflineData
    /\ idx = 0
    /\ upd_current_time = 0
    /\ current_player_names = {}
    /\ left_players = <<>>
    /\ leave_player = NoName
    /\ session_duration = NoValue
    /\ upd_failed = NoName
    /\ cleanPc = "idle"
    /\ cln_current_time = 0
    /\ offline_players = <<>>
    /\ ticks = <<>>
    /\ playtime_at_join = [n \in {} |-> 0]
    /\ last_close = [name |-> NoName, duration |-> NoValue, credited |-> NoValue]

StoreInit(t, pl, ev, pg, cp, sst) == Constructed(t, pl, ev, pg, cp, sst) /\ Running

NoPlayers == [n \in {} |-> 0]

Hour == 3600                \* timedelta(hours=1) in seconds

(* round(x, 1) of x = total / count, in tenths: the nearest tenth, a tie    *)
(* going to the even one.                                                  *)
RoundTenths(total, count) ==
    LET q == (10 * total) \div count
        r == (10 * total) % count
    IN  IF 2 * r < count THEN q
        ELSE IF 2 * r > count THEN q + 1
        ELSE IF q % 2 = 0 THEN q ELSE q + 1

Column(rows, f(_)) == [i \in DOMAIN rows |-> f(rows[i])]

(* A get_ping_stats that answers zeroes for an empty window. *)
GetPingStatsZeroes(pg, hours, t) ==
    LET cutoff == t - hours * Hour
        matched == SelectSeq(pg, LAMBDA e : e.timestamp >= cutoff)
        count == Len(matched)
        low == Column(matched, LAMBDA e : e.low)
        avg == Column(matched, LAMBDA e : e.avg)
        high == Column(matched, LAMBDA e : e.high)
    IN  IF ~store_up THEN NoResult
        ELSE IF count > 0
        THEN [none |-> FALSE,
              low |-> RoundTenths(SumSeq(low), count),
              avg |-> RoundTenths(SumSeq(avg), count),
              high |-> RoundTenths(SumSeq(high), count),
              min |-> 10 * SeqMin(low),
              max |-> 10 * SeqMax(high)]
        ELSE [none |-> FALSE, low |-> 0, avg |-> 0, high |-> 0,
              min |-> 0, max |-> 0]

(* DatabaseManager.get_ping_stats(hours) at time t; the numbers of the     *)
(* answer are in tenths.  AnalyticsManager.get_ping_stats passes it on.    *)
GetPingStats(pg, hours, t) ==
    LET cutoff == t - hours * Hour
        matched == SelectSeq(pg, LAMBDA e : e.timestamp >= cutoff)
        count == Len(matched)
        low == Column(matched, LAMBDA e : e.low)
        avg == Column(matched, LAMBDA e : e.avg)
        high == Column(matched, LAMBDA e : e.high)
    IN  IF ~store_up THEN NoResult
        ELSE IF count > 0
        THEN [none |-> FALSE,
              low |-> RoundTenths(SumSeq(low), count),
              avg |-> RoundTenths(SumSeq(avg), count),
              high |-> RoundTenths(SumSeq(high), count),
              min |-> 10 * SeqMin(low),
              max |-> 10 * SeqMax(high)]
        ELSE NoResult

(* Ping logs a reader can meet: samples of ticks an hour apart. *)
StatsNow == 2 * Hour

SampleTimes == {0, Hour, 2 * Hour}

PingTriples == {<<25, 25, 25>>, <<40, 40, 40>>, <<40, 50, 60>>, <<60, 60, 60>>}

Samples ==
    {[timestamp |-> t, server_ping |-> ServerPing,
      low |-> p[1], avg |-> p[2], high |-> p[3]] :
        t \in SampleTimes, p \in PingTriples}

SampleLogs ==
    {pg \in UNION {[1..k -> Samples] : k \in 0..MaxSamples} :
        \A i, j \in DOMAIN pg : i < j => pg[i].timestamp <= pg[j].timestamp}

Hours == {0, 1, 2, 24}

QueryPingStats ==
    /\ \E hours \in Hours :
           /\ query' = [op |-> "get_ping_stats", arg |-> hours]
           /\ result' = GetPingStats(ping_logs, hours, now)
    /\ UNCHANGED <<timeVars, trackVars, notifVars, dbVars, botVars, pollLocals,
                   cleanLocals, histVars, store_up, response, forced,
                   upsert_calls, cleanupPc, startVars, held>>

(* AnalyticsManager.get_server_stats(days): the entries of its answer that *)
(* come from the ping log and from the tracker.                            *)
GetServerStats(pg, cp, days, t) ==
    LET ping_stats == GetPingStats(pg, days * 24, t)
    IN  [current_players |-> Len(cp), none |-> FALSE,
         avg_ping |-> IF ~ping_stats.none THEN ping_stats.avg ELSE 0,
         period_days |-> days]

Days == {0, 1, 7}

QueryServerStats ==
    /\ \E days \in Days :
           /\ query' = [op |-> "get_server_stats", arg |-> days]
           /\ result' = GetServerStats(ping_logs, current_players, days, now)
    /\ UNCHANGED <<timeVars, trackVars, notifVars, dbVars, botVars, pollLocals,
                   cleanLocals, histVars, store_up, response, forced,
                   upsert_calls, cleanupPc, startVars, held>>

StatsInit ==
    \E pg \in SampleLogs : StoreInit(StatsNow, NoPlayers, <<>>, pg, <<>>, NoPlayers)

StatsNext == QueryPingStats \/ QueryServerStats

StatsSpec == StatsInit /\ [][StatsNext]_vars

(* DatabaseManager.get_recent_events(limit): the newest limit events,      *)
(* newest first.                                                           *)
Reverse(s) == [i \in DOMAIN s |-> s[Len(s) + 1 - i]]

GetRecentEvents(ev, limit) ==
    IF ~store_up THEN <<>>
    ELSE LET newest_first == Reverse(ev)
         IN  SubSeq(newest_first, 1, IF Len(ev) < limit THEN Len(ev) ELSE limit)

(* list.sort(key=timestamp): ascending and stable. *)
RECURSIVE InsertByTimestamp(_, _)
InsertByTimestamp(sorted, e) ==
    IF sorted = <<>> THEN <<e>>
    ELSE IF sorted[Len(sorted)].timestamp <= e.timestamp THEN Append(sorted, e)
    ELSE Append(InsertByTimestamp(SubSeq(sorted, 1, Len(sorted) - 1), e),
                sorted[Len(sorted)])

RECURSIVE SortByTimestamp(_)
SortByTimestamp(events) ==
    IF events = <<>> THEN <<>>
    ELSE InsertByTimestamp(SortByTimestamp(SubSeq(events, 1, Len(events) - 1)),
                           events[Len(events)])

Max(a, b) == IF a >= b THEN a ELSE b

(* A replay that never takes a player out of the running set. *)
RECURSIVE ReplayKeepsLeavers(_, _, _)
ReplayKeepsLeavers(events, concurrent_players, max_concurrent) ==
    IF events = <<>> THEN max_concurrent
    ELSE LET event == Head(events)
             after == IF event.event_type = "join"
                      THEN concurrent_players \cup {event.player_name}
                      ELSE concurrent_players
         IN  ReplayKeepsLeavers(Tail(events), after,
                                Max(max_concurrent, Cardinality(after)))

(* The for loop of _calculate_peak_players. *)
RECURSIVE Replay(_, _, _)
Replay(events, concurrent_players, max_concurrent) ==
    IF events = <<>> THEN max_concurrent
    ELSE LET event == Head(events)
             after == IF event.event_type = "join"
                      THEN concurrent_players \cup {event.player_name}
                      ELSE IF event.event_type = "leave"
                      THEN concurrent_players \ {event.player_name}
                      ELSE concurrent_players
         IN  Replay(Tail(events), after, Max(max_concurrent, Cardinality(after)))

Day == 86400                \* timedelta(days=1) in seconds

EventLimit == 1000          \* get_recent_events(limit=1000)

(* AnalyticsManager._calculate_peak_players(days) at time t *)
CalculatePeakPlayers(ev, cp, days, t) ==
    LET cutoff == t - days * Day
        events == SelectSeq(GetRecentEvents(ev, EventLimit),
                            LAMBDA e : e.timestamp >= cutoff)
    IN  IF events = <<>> THEN Len(cp)
        ELSE Replay(SortByTimestamp(events), {}, 0)

(* Event logs a reader can meet: events with distinct time stamps. *)
PeakNow == 2 * Day

EventTimes == {0, Day, Day + Hour, Day + 2 * Hour, 2 * Day}

Ascending(T) ==
    CHOOSE s \in [1..Cardinality(T) -> T] : \A i, j \in DOMAIN s : i < j => s[i] < s[j]

EventKinds == {"join", "leave"} \X Names

EventLogs ==
    UNION {{[i \in 1..Cardinality(T) |->
                EventEntry(Ascending(T)[i], kind[i][1], kind[i][2], NoValue, "none")] :
               kind \in [1..Cardinality(T) -> EventKinds]} :
           T \in {U \in SUBSET EventTimes : Cardinality(U) <= MaxEvents}}

Trackers ==
    {<<>>, <<Entry("A", 0, 40)>>, <<Entry("A", 0, 40), Entry("B", 0, 60)>>}

PeakDays == {0, 1, 2}

QueryPeakPlayers ==
    /\ \E days \in PeakDays :
           /\ query' = [op |-> "_calculate_peak_players", arg |-> days]
           /\ result' = [value |-> CalculatePeakPlayers(event_logs, current_players,
                                                        days, now),
                         none |-> FALSE]
    /\ UNCHANGED <<timeVars, trackVars, notifVars, dbVars, botVars, pollLocals,
                   cleanLocals, histVars, store_up, response, forced,
                   upsert_calls, cleanupPc, startVars, held>>

PeakInit ==
    \E ev \in EventLogs, cp \in Trackers :
        StoreInit(PeakNow, NoPlayers, ev, <<>>, cp,
                  [n \in Keys(cp) |-> 0])

PeakNext == QueryPeakPlayers

PeakSpec == PeakInit /\ [][PeakNext]_vars

(* An uptime percentage without the cap at 100. *)
CalculateUptimeUncapped(pg, days, t) ==
    LET cutoff == t - days * Day
        expected_updates == (days * Day) \div PollInterval
        actual_updates == Len(SelectSeq(pg, LAMBDA e : e.timestamp >= cutoff))
    IN  IF ~store_up THEN 950
        ELSE IF expected_updates = 0 THEN 1000
        ELSE RoundTenths(actual_updates * 100, expected_updates)

(* AnalyticsManager._calculate_uptime_percentage(days) at time t, in       *)
(* tenths of a percent.  days * 24 * 60 * 60 is a multiple of 30.          *)
CalculateUptimePercentage(pg, days, t) ==
    LET cutoff == t - days * Day
        expected_updates == (days * Day) \div PollInterval
        actual_updates == Len(SelectSeq(pg, LAMBDA e : e.timestamp >= cutoff))
    IN  IF ~store_up THEN 950
        ELSE IF expected_updates = 0 THEN 1000
        ELSE IF actual_updates >= expected_updates THEN 1000
        ELSE RoundTenths(actual_updates * 100, expected_updates)

(* Ping logs of a long run: a few samples from before every window, then   *)
(* a number of samples inside.                                             *)
UptimeNow == 3 * Day

BlockSize == 144

UptimeCounts == {1, 2, 3, 2879, 2881} \cup {BlockSize * k : k \in 0..MaxBlocks}

PingSample(t) ==
    [timestamp |-> t, server_ping |-> ServerPing, low |-> 40, avg |-> 40, high |-> 40]

LongLog(old, count) ==
    [i \in 1..(old + count) |->
        IF i <= old THEN PingSample(0) ELSE PingSample(2 * Day + Hour)]

UptimeDays == {0, 1, 2}

QueryUptime ==
    /\ \E days \in UptimeDays :
           /\ query' = [op |-> "_calculate_uptime_percentage", arg |-> days]
           /\ result' = [value |-> CalculateUptimePercentage(ping_logs, days, now),
                         none |-> FALSE]
    /\ UNCHANGED <<timeVars, trackVars, notifVars, dbVars, botVars, pollLocals,
                   cleanLocals, histVars, store_up, response, forced,
                   upsert_calls, cleanupPc, startVars, held>>

UptimeInit ==
    \E old \in {0, 2}, count \in UptimeCounts :
        StoreInit(UptimeNow, NoPlayers, <<>>, LongLog(old, count), <<>>, NoPlayers)

UptimeNext == QueryUptime

UptimeSpec == UptimeInit /\ [][UptimeNext]_vars

(* DatabaseManager.cleanup_old_data: three awaited store operations. *)
PingRetention == 30 * Day   \* timedelta(days=30)

EventRetention == 90 * Day  \* timedelta(days=90)

InactiveAfter == 30 * Day   \* timedelta(days=30)

(* delete_many({"timestamp": {"$lt": cutoff}}) *)
DeleteOlder(log, cutoff) == SelectSeq(log, LAMBDA e : ~(e.timestamp < cutoff))

(* A cleanup that removes the records it should mark. *)
MarkInactiveDeletes(pl, cutoff) ==
    [n \in {m \in DOMAIN pl : ~(pl[m].lastSeen < cutoff)} |-> pl[n]]

(* update_many({"lastSeen": {"$lt": cutoff}}, {"$set": {"status": "inactive"}}) *)
MarkInactive(pl, cutoff) ==
    [n \in DOMAIN pl |->
        IF pl[n].lastSeen < cutoff THEN [pl[n] EXCEPT !.status = "inactive"]
        ELSE pl[n]]

CleanupPings ==
    /\ cleanupPc = "idle"
    /\ store_up
    /\ ping_logs' = DeleteOlder(ping_logs, now - PingRetention)
    /\ cleanupPc' = "pings"
    /\ query' = [op |-> "cleanup_old_data", arg |-> 0]
    /\ result' = [none |-> FALSE, events |-> 0,
                  pings |-> Len(ping_logs) - Len(ping_logs'), marked |-> 0]
    /\ UNCHANGED <<timeVars, trackVars, notifVars, players, event_logs, botVars,
                   pollLocals, cleanLocals, histVars, store_up, response, forced,
                   upsert_calls, startVars, held>>

CleanupEvents ==
    /\ cleanupPc = "pings"
    /\ event_logs' = DeleteOlder(event_logs, now - EventRetention)
    /\ cleanupPc' = "events"
    /\ result' = [result EXCEPT !.events = Len(event_logs) - Len(event_logs')]
    /\ UNCHANGED <<timeVars, trackVars, notifVars, players, ping_logs, botVars,
                   pollLocals, cleanLocals, histVars, store_up, response, forced,
                   upsert_calls, query, startVars, held>>

CleanupPlayers ==
    /\ cleanupPc = "events"
    /\ players' = MarkInactive(players, now - InactiveAfter)
    /\ cleanupPc' = "idle"
    /\ result' = [result EXCEPT !.marked =
                      Cardinality({n \in DOMAIN players :
                                      /\ players[n].lastSeen < now - InactiveAfter
                                      /\ players[n].status # "inactive"})]
    /\ UNCHANGED <<timeVars, trackVars, notifVars, event_logs, ping_logs, botVars,
                   pollLocals, cleanLocals, histVars, store_up, response, forced,
                   upsert_calls, query, startVars, held>>

(* update_player_data meets a player that is not tracked: its upsert with  *)
(* a session time of 0.                                                    *)
PlayerSeen ==
    /\ \E name \in Names : players' = UpsertPlayer(players, name, 40, 0, now)
    /\ UNCHANGED <<timeVars, trackVars, notifVars, event_logs, ping_logs, botVars,
                   pollLocals, cleanLocals, histVars, envVars>>

(* Stores of a long run: records of every age around the retention times. *)
CleanupNow == 100 * Day

PingAges == {29, 30, 31}

EventAges == {89, 90, 91}

SeenAges == {29, 30, 31}

Descending(T) ==
    CHOOSE s \in [1..Cardinality(T) -> T] : \A i, j \in DOMAIN s : i < j => s[i] > s[j]

AgedPingLog(T) ==
    [i \in 1..Cardinality(T) |-> PingSample(CleanupNow - Descending(T)[i] * Day)]

AgedEventLog(T) ==
    [i \in 1..Cardinality(T) |->
        EventEntry(CleanupNow - Descending(T)[i] * Day, "join", "A", NoValue, "none")]

AgedPlayers(age) ==
    [n \in DOMAIN age |->
        [ping |-> 40, status |-> NoStatus,
         lastSeen |-> CleanupNow - age[n] * Day, playtime |-> 60,
         firstSeen |-> 0, totalSessions |-> 1]]

CleanupInit ==
    \E P \in SUBSET PingAges, E \in SUBSET EventAges, N \in SUBSET Names :
        \E age \in [N -> SeenAges] :
            StoreInit(CleanupNow, AgedPlayers(age), AgedEventLog(E), AgedPingLog(P),
                      <<>>, NoPlayers)

CleanupNext == CleanupPings \/ CleanupEvents \/ CleanupPlayers \/ PlayerSeen

CleanupSpec == CleanupInit /\ [][CleanupNext]_vars

(* Every writer of the players collection, called in any order on a store *)
(* of a long run: upsert_player with the session times 0 and 30 of a tick, *)
(* increment_player_sessions, and the three steps of cleanup_old_data.     *)
RecordNames == {"A", "B"}

RecordUpsert ==
    /\ \E name \in RecordNames, session_time \in {0, SessionIncrement} :
           /\ name \in DOMAIN players =>
                  players[name].playtime < MaxUpserts * SessionIncrement
           /\ players' = UpsertPlayer(players, name, 40, session_time, now)
    /\ players' # players
    /\ UNCHANGED <<timeVars, trackVars, notifVars, event_logs, ping_logs, botVars,
                   pollLocals, cleanLocals, histVars, envVars>>

RecordIncrement ==
    /\ \E player_name \in RecordNames :
           /\ player_name \in DOMAIN players =>
                  players[player_name].totalSessions < MaxUpserts
           /\ players' = IncrementPlayerSessions(players, player_name)
    /\ players' # players
    /\ UNCHANGED <<timeVars, trackVars, notifVars, event_logs, ping_logs, botVars,
                   pollLocals, cleanLocals, histVars, envVars>>

RecordInit ==
    \E N \in SUBSET RecordNames :
        \E age \in [N -> SeenAges] :
            StoreInit(CleanupNow, AgedPlayers(age), <<>>, <<>>, <<>>, NoPlayers)

RecordNext ==
    \/ RecordUpsert
    \/ RecordIncrement
    \/ CleanupPings
    \/ CleanupEvents
    \/ CleanupPlayers

RecordSpec == RecordInit /\ [][RecordNext]_vars

(* One of the three store operations of cleanup_old_data raises: the one   *)
(* except clause of the method logs the error and the method returns.      *)
CleanupRaises(at, step) ==
    /\ cleanupPc = at
    /\ store_up
    /\ cleanupPc' = "idle"
    /\ query' = [op |-> "cleanup_old_data", arg |-> 0]
    /\ result' = [none |-> TRUE, failed |-> step]
    /\ UNCHANGED <<timeVars, trackVars, notifVars, dbVars, botVars, pollLocals,
                   cleanLocals, histVars, store_up, response, forced, upsert_calls,
                   startVars, held>>

CleanupPingsFails == CleanupRaises("idle", "ping_logs")

CleanupEventsFails == CleanupRaises("pings", "event_logs")

CleanupPlayersFails == CleanupRaises("events", "players")

CleanupFailNext ==
    \/ CleanupPings
    \/ CleanupEvents
    \/ CleanupPlayers
    \/ CleanupPingsFails
    \/ CleanupEventsFails
    \/ CleanupPlayersFails

CleanupFailSpec == CleanupInit /\ [][CleanupFailNext]_vars

(* AnalyticsManager.log_ping_data called on its own, with any server ping,  *)
(* on a tracker whose pings are 0 or positive.  The drawn trackers are     *)
(* those whose positive pings have a whole mean, so that the avg of        *)
(* PingStats is sum / len exactly.                                         *)
PingValues == {0, 20, 40, 60}

ServerPings == {0, ServerPing, 300}

TrackerOf(N, ping) ==
    [i \in 1..Cardinality(N) |-> Entry(InOrder(N)[i], 0, ping[InOrder(N)[i]])]

PingTrackers ==
    {cp \in UNION {{TrackerOf(N, ping) : ping \in [N -> PingValues]} :
                      N \in SUBSET Names} :
        LET pp == PlayerPings(cp)
        IN  pp # <<>> => SumSeq(pp) % Len(pp) = 0}

LogPingDataCall ==
    /\ Len(ping_logs) < MaxSamples
    /\ \E server_ping \in ServerPings :
           ping_logs' = LogPingData(ping_logs, PingStats(current_players, server_ping))
    /\ UNCHANGED <<timeVars, trackVars, notifVars, players, event_logs, botVars,
                   pollLocals, cleanLocals, histVars, store_up, response, forced,
                   upsert_calls, queryVars, cleanupPc, startVars, held>>

PingInit ==
    \E cp \in PingTrackers :
        StoreInit(0, NoPlayers, <<>>, <<>>, cp, [n \in Keys(cp) |-> 0])

PingNext == LogPingDataCall

PingSpec == PingInit /\ [][PingNext]_vars

(* Readers of the presence data.  None of them awaits, so each runs        *)
(* between two steps of a tick or of the reaper.                           *)

(* self.session_start_times.get(name, data['last_update']) *)
OnlineSince(sst, data) ==
    IF data.name \in DOMAIN sst THEN sst[data.name] ELSE data.last_update

(* AnalyticsManager.get_current_online_players: a list comprehension of    *)
(* dict displays, so a new list of new dicts whose values are a str, the   *)
(* ping, a datetime and an int.                                            *)
GetCurrentOnlinePlayers(cp, sst, t) ==
    [shares |-> {},
     value |-> [i \in DOMAIN cp |->
                  [session_duration |-> t - OnlineSince(sst, cp[i]),
                   name |-> cp[i].name, ping |-> cp[i].ping,
                   online_since |-> OnlineSince(sst, cp[i])]]]

(* A reader that hands out the set of the notifier itself. *)
NotifierOnlinePlayersLive(pp) ==
    [shares |-> {"previous_players"}, value |-> InOrder(pp)]

(* NotificationManager.get_current_online_players: list(set), a new list   *)
(* of the names.                                                           *)
NotifierOnlinePlayers(pp) ==
    [shares |-> {}, value |-> InOrder(pp)]

Sum(s, f(_)) ==
    LET RECURSIVE Upto(_)
        Upto(k) == IF k = 0 THEN 0 ELSE Upto(k - 1) + f(s[k])
    IN  Upto(Len(s))

LargestOf(S) == CHOOSE m \in S : \A x \in S : x <= m

(* AnalyticsManager.get_session_statistics; average_ping in tenths. *)
GetSessionStatistics(cp, sst, t) ==
    LET online_players == GetCurrentOnlinePlayers(cp, sst, t).value
        pings == SelectSeq(online_players, LAMBDA p : p.ping > 0)
    IN  IF online_players = <<>>
        THEN [shares |-> {},
              value |-> [players |-> <<>>, total_online |-> 0, average_session_time |-> 0,
 longest_session |-> 0, average_ping |-> 0]]
        ELSE [shares |-> {},
              value |->
                [players |-> online_players, total_online |-> Len(online_players),
 average_session_time |-> Sum(online_players, LAMBDA p : p.session_duration)
                         \div Len(online_players),
 longest_session |-> LargestOf({online_players[i].session_duration :
                                   i \in DOMAIN online_players}),
 average_ping |-> IF pings = <<>> THEN 0
                     ELSE RoundTenths(Sum(pings, LAMBDA p : p.ping), Len(pings))]]

Hold(op, returned) ==
    [op |-> op, shares |-> returned.shares, value |-> returned.value,
     mutated |-> FALSE]

ReadFrame ==
    UNCHANGED <<timeVars, trackVars, notifVars, dbVars, botVars, pollLocals,
                cleanLocals, histVars, store_up, response, forced, upsert_calls,
                queryVars, cleanupPc, startVars>>

ReadAnalytics ==
    /\ held' = Hold("analytics",
                    GetCurrentOnlinePlayers(current_players, session_start_times, now))
    /\ held' # held
    /\ ReadFrame

ReadNotifier ==
    /\ held' = Hold("notifier", NotifierOnlinePlayers(previous_players))
    /\ held' # held
    /\ ReadFrame

ReadStatistics ==
    /\ held' = Hold("statistics",
                    GetSessionStatistics(current_players, session_start_times, now))
    /\ held' # held
    /\ ReadFrame

(* The list a holder reads or changes. *)
HeldList(h) == IF h.op = "statistics" THEN h.value.players ELSE h.value

(* The holder removes the first element of the list it was handed         *)
(* (list.pop(0), or set.pop() and dict.popitem() when it was handed the    *)
(* container of the tracker itself).                                       *)
ReaderMutates ==
    /\ held.op # "none"
    /\ HeldList(held) # <<>>
    /\ held' = [held EXCEPT
                   !.value = IF held.op = "statistics"
                             THEN [held.value EXCEPT !.players = Tail(@)]
                             ELSE Tail(@),
                   !.mutated = TRUE]
    /\ previous_players' =
           IF "previous_players" \in held.shares
           THEN previous_players \ {Head(HeldList(held))}
           ELSE previous_players
    /\ current_players' =
           IF "current_players" \in held.shares
           THEN Del(current_players, Head(HeldList(held)).name)
           ELSE current_players
    /\ UNCHANGED <<timeVars, session_start_times, player_join_times, dbVars,
                   botVars, pollLocals, cleanLocals, histVars, store_up, response,
                   forced, upsert_calls, queryVars, cleanupPc, startVars>>

(* What the holder sees when it looks at the value it was handed. *)
Seen ==
    IF "previous_players" \in held.shares THEN InOrder(previous_players)
    ELSE IF "current_players" \in held.shares THEN current_players
    ELSE HeldList(held)

ReadNext ==
    \/ Advance
    \/ PollOffline
    \/ PollOnlineSingle
    \/ PollJoined
    \/ PollLoop
    \/ PollLeaveLogged
    \/ PollLeaveFlushed
    \/ PollNotify
    \/ CleanStart
    \/ CleanLogged
    \/ ReadAnalytics
    \/ ReadNotifier
    \/ ReadStatistics
    \/ ReaderMutates

ReadSpec == Init /\ [][ReadNext]_vars

(* Start-up: main builds MotionlifeBot, whose __init__ builds Config, then  *)
(* awaits bot.start, which logs in, runs setup_hook and connects.           *)

(* os.getenv(key, default) *)
GetEnv(env, key, default) == IF env[key] = Missing THEN default ELSE env[key]

(* int(os.getenv(key, default)) raises ValueError on "" and on text. *)
IntRaises(value) == value \notin {"0", "30"}

(* `not value` of _validate_config: None and "" are falsy. *)
Falsy(value) == value \in {Missing, ""}

(* Config.__init__ raises: an int() of a setting fails, or _validate_config *)
(* rejects one of the three required values.                                *)
ConfigRaises(env) ==
    LET DISCORD_TOKEN == GetEnv(env, "DISCORD_TOKEN", Missing)
        GUILD_ID == GetEnv(env, "GUILD_ID", "0")
        MONGODB_URI == GetEnv(env, "MONGODB_URI", "mongodb://localhost:27017/motionlife_rp")
        FIVEM_BASE_URL == GetEnv(env, "FIVEM_BASE_URL", "http://localhost:3007")
        UPDATE_INTERVAL == GetEnv(env, "UPDATE_INTERVAL", "30")
    IN  \/ IntRaises(GUILD_ID)
        \/ IntRaises(UPDATE_INTERVAL)
        \/ Falsy(DISCORD_TOKEN)
        \/ Falsy(MONGODB_URI)
        \/ Falsy(FIVEM_BASE_URL)

(* bot = MotionlifeBot(): the ValueError of Config leaves main. *)
StartConfig ==
    /\ startPc = "new"
    /\ startPc' = IF ConfigRaises(environ) THEN "failed" ELSE "configured"
    /\ UNCHANGED <<timeVars, trackVars, notifVars, dbVars, botVars, pollLocals,
                   cleanLocals, histVars, store_up, response, forced, upsert_calls,
                   queryVars, cleanupPc, environ, tasks_started, held>>

(* bot.start: the login with the token is accepted or raises LoginFailure. *)
StartLogin ==
    /\ startPc = "configured"
    /\ \E accepted \in BOOLEAN :
           startPc' = IF accepted THEN "logged_in" ELSE "failed"
    /\ UNCHANGED <<timeVars, trackVars, notifVars, dbVars, botVars, pollLocals,
                   cleanLocals, histVars, store_up, response, forced, upsert_calls,
                   queryVars, cleanupPc, environ, tasks_started, held>>

(* setup_hook: the store connects and the loops are started, or connect     *)
(* raises and the except clause logs it.                                    *)
StartHook ==
    /\ startPc = "logged_in"
    /\ \E connected \in BOOLEAN : tasks_started' = connected
    /\ startPc' = "hooked"
    /\ UNCHANGED <<timeVars, trackVars, notifVars, dbVars, botVars, pollLocals,
                   cleanLocals, histVars, store_up, response, forced, upsert_calls,
                   queryVars, cleanupPc, environ, held>>

(* bot.start connects to the gateway. *)
StartConnect ==
    /\ startPc = "hooked"
    /\ startPc' = "connected"
    /\ UNCHANGED <<timeVars, trackVars, notifVars, dbVars, botVars, pollLocals,
                   cleanLocals, histVars, store_up, response, forced, upsert_calls,
                   queryVars, cleanupPc, environ, tasks_started, held>>

(* Environments main can be started in. *)
Environs ==
    {env \in [Settings -> {Missing, "", "x", "30"}] :
        /\ \A k \in {"DISCORD_TOKEN", "MONGODB_URI", "FIVEM_BASE_URL"} :
               env[k] \in {Missing, "", "x"}
        /\ \A k \in {"GUILD_ID", "UPDATE_INTERVAL"} : env[k] \in {Missing, "30", "x"}}

StartInit ==
    /\ Constructed(0, NoPlayers, <<>>, <<>>, <<>>, NoPlayers)
    /\ environ \in Environs
    /\ startPc = "new"
    /\ tasks_started = FALSE

StartNext == StartConfig \/ StartLogin \/ StartHook \/ StartConnect

StartSpec == StartInit /\ [][StartNext]_vars
----------------------------------------------------------------------------
(* Vocabulary of the properties *)

Tracked(n) == Has(current_players, n)

Quiet == pollPc = "idle" /\ cleanPc = "idle"

(* Positions in the event log of the events written during tick k. *)
TickEvents(k, type, n) ==
    {i \in (ticks[k].log_start + 1)..ticks[k].log_end :
        event_logs[i].event_type = type /\ event_logs[i].player_name = n}

EventsOf(type, n) ==
    {i \in DOMAIN event_logs :
        event_logs[i].event_type = type /\ event_logs[i].player_name = n}

(* current_time of the run of clean_offline_players a step belongs to. *)
RunTime == IF cleanPc = "idle" THEN now ELSE cln_current_time

(* A step of clean_offline_players that does something. *)
ReaperStep == cleanPc' # cleanPc \/ offline_players' # offline_players

(* cleanup_task is rescheduled for ever by tasks.loop, and an awaited store *)
(* operation returns: the reaper starts again and again and finishes.      *)
LiveSpec == Spec /\ WF_vars(CleanStart) /\ WF_vars(CleanLogged)

----------------------------------------------------------------------------
(* C1: a player tracked when a tick begins and absent from the online      *)
(* snapshot of that tick gets exactly one leave event during the tick,     *)
(* also when the roster is empty, and the event has reason "departed".     *)
C1_OneDepartedLeave ==
    \A k \in DOMAIN ticks :
        (ticks[k].done /\ ticks[k].online) =>
            \A n \in ticks[k].tracked_before \ ticks[k].names :
                /\ Cardinality(TickEvents(k, "leave", n)) = 1
                /\ \A i \in TickEvents(k, "leave", n) :
                       event_logs[i].reason = "departed"

(* C2: a player in the roster of tick N, absent from the roster of tick    *)
(* N+1 and back in the roster of tick N+2 gets exactly one join event      *)
(* during tick N+2, and its session start time is the time of tick N+2.    *)
C2_OneJoinOnReturn ==
    \A k \in DOMAIN ticks :
        (/\ k >= 3
         /\ ticks[k].done
         /\ ticks[k - 2].online /\ ticks[k - 1].online /\ ticks[k].online) =>
            \A n \in (ticks[k - 2].names \cap ticks[k].names) \ ticks[k - 1].names :
                /\ Cardinality(TickEvents(k, "join", n)) = 1
                /\ (k = Len(ticks) /\ Quiet) =>
                       /\ n \in DOMAIN session_start_times
                       /\ session_start_times[n] = ticks[k].at

(* C3: a tick with an offline snapshot leaves current_players and          *)
(* session_start_times as they were and logs nothing; while the server is  *)
(* known offline an entry disappears only in a step of the reaper, for a   *)
(* player the reaper found stale and logged a timeout leave for.           *)
C3_OfflineTickKeepsPresence ==
    [][ /\ (Len(ticks') = Len(ticks) + 1 /\ ~ticks'[Len(ticks')].online) =>
               /\ current_players' = current_players
               /\ session_start_times' = session_start_times
               /\ event_logs' = event_logs
        /\ \A n \in Names :
               (~server_status.online /\ Tracked(n) /\ ~Has(current_players', n)) =>
                   /\ cleanPc = "logged"
                   /\ Head(offline_players) = n
                   /\ RunTime - Get(current_players, n).last_update
                          > OfflineThreshold
                   /\ \E i \in EventsOf("leave", n) :
                          event_logs[i].reason = "timeout"
      ]_vars

C3_Witness ==
    /\ Len(ticks) >= 2
    /\ ~ticks[Len(ticks)].online
    /\ ticks[Len(ticks)].tracked_before = {"A", "B"}
    /\ Keys(current_players) = {"A", "B"}
    /\ DOMAIN session_start_times = {"A", "B"}

(* C4: when no handler is in progress, the tracked names are exactly the   *)
(* names of the roster of the latest online snapshot that the reaper has   *)
(* not removed since.                                                      *)
C4_TrackedIsLatestRoster ==
    (Quiet /\ \E k \in DOMAIN ticks : ticks[k].online) =>
        LET latest == CHOOSE k \in DOMAIN ticks :
                          /\ ticks[k].online
                          /\ \A j \in DOMAIN ticks : ticks[j].online => j <= k
            reaped == {n \in Names :
                          \E i \in EventsOf("leave", n) :
                              /\ event_logs[i].reason = "timeout"
                              /\ i > ticks[latest].log_end}
        IN  Keys(current_players) = ticks[latest].names \ reaped

(* C5: update_player_data and clean_offline_players are mutually          *)
(* exclusive: neither is between two of its accesses to current_players    *)
(* and session_start_times while the other is.                             *)
C5_MutualExclusion ==
    ~(/\ pollPc \in {"joined", "loop", "leave_logged", "leave_flushed"}
      /\ cleanPc = "logged")

(* C6: the playtime credited to a record since the player's session        *)
(* started never exceeds the time elapsed since the session started.       *)
C6_NoDoubleCredit ==
    \A n \in DOMAIN session_start_times \cap DOMAIN players :
        players[n].playtime - playtime_at_join[n] <= now - session_start_times[n]

(* C7: when the leave loop closes a session, the playtime credited during  *)
(* the session equals the session duration written in the leave event.     *)
C7_CreditEqualsDuration ==
    last_close.name # NoName => last_close.credited = last_close.duration

(* AnalyticsManager._get_current_session_duration *)
CurrentSessionDuration(n) ==
    IF n \in DOMAIN session_start_times
    THEN LocalNow - UtcOffset - session_start_times[n]
    ELSE 0

RECURSIVE LeaveDurations(_, _)
LeaveDurations(ev, n) ==
    IF ev = <<>> THEN 0
    ELSE LeaveDurations(Tail(ev), n)
         + (IF Head(ev).event_type = "leave" /\ Head(ev).player_name = n
            THEN Head(ev).session_duration ELSE 0)

FirstJoin(n) ==
    event_logs[CHOOSE i \in EventsOf("join", n) :
                   \A j \in EventsOf("join", n) : i <= j].timestamp

Abs(x) == IF x < 0 THEN 0 - x ELSE x

(* C8: between ticks, the durations of a player's leave events plus the    *)
(* running duration of its open session equal the time since the player's  *)
(* first join, within one tick interval.                                   *)
C8_SessionsCoverWallClock ==
    pollPc = "idle" =>
        \A n \in Names :
            EventsOf("join", n) # {} =>
                Abs(LeaveDurations(event_logs, n) + CurrentSessionDuration(n)
                    - (now - FirstJoin(n))) <= PollInterval

(* C9: a step of clean_offline_players neither removes nor logs a timeout  *)
(* leave for a tracked player whose last_update is within the threshold    *)
(* of the time of the run.                                                 *)
C9_ReaperSparesFresh ==
    [][ ReaperStep =>
            \A n \in Names :
                (/\ Tracked(n)
                 /\ \/ ~Has(current_players', n)
                    \/ /\ Len(event_logs') > Len(event_logs)
                       /\ event_logs'[Len(event_logs')].player_name = n) =>
                    RunTime - Get(current_players, n).last_update > OfflineThreshold
      ]_vars

(* C10: a tracked player that stays unseen for longer than the threshold   *)
(* is eventually removed, and the reaper removes it with exactly one       *)
(* timeout leave on the log for the session, of duration run time minus    *)
(* session start.                                                          *)
TimeoutLeaves(n, started) ==
    {i \in EventsOf("leave", n) :
        /\ event_logs[i].reason = "timeout"
        /\ event_logs[i].timestamp - event_logs[i].session_duration = started}

Unseen(n) ==
    /\ Tracked(n)
    /\ now - Get(current_players, n).last_update > OfflineThreshold

C11_TicksDoNotOverlap ==
    [][ Len(ticks') = Len(ticks) + 1 =>
            /\ pollPc = "idle"
            /\ \A k \in DOMAIN ticks : ticks[k].done
      ]_vars

C11_Witness ==
    /\ Len(ticks) >= 2
    /\ ticks[Len(ticks) - 1].log_end > ticks[Len(ticks) - 1].log_start + 1
    /\ ticks[Len(ticks) - 1].done
    /\ ~ticks[Len(ticks)].done
    /\ pollPc \in {"joined", "loop", "leave_logged"}

(* C12: when the processing of one player raises in update_player_data,    *)
(* the other players of the tick are still processed: at the end of the    *)
(* tick every roster name is tracked and every other departed name has     *)
(* been removed.                                                           *)
C12_FailureSparesOthers ==
    \A k \in DOMAIN ticks :
        (ticks[k].done /\ ticks[k].online /\ ticks[k].failed # NoName) =>
            /\ ticks[k].names \subseteq ticks[k].tracked_after
            /\ \A n \in (ticks[k].tracked_before \ ticks[k].names)
                          \ {ticks[k].failed} :
                   n \notin ticks[k].tracked_after

(* C13: a write that fails in the store does not raise into                *)
(* update_player_data and does not undo the presence state: while no       *)
(* entry can be stale, a finished tick with a roster has raised nothing    *)
(* and leaves exactly the roster names tracked, each with a session start, *)
(* whether or not its writes were stored.                                  *)
C13_FailedWriteKeepsPresence ==
    \A k \in DOMAIN ticks :
        (/\ ticks[k].done /\ ticks[k].online /\ ticks[k].names # {}
         /\ now <= OfflineThreshold) =>
            /\ ticks[k].failed = NoName
            /\ ticks[k].tracked_after = ticks[k].names
            /\ (k = Len(ticks) /\ pollPc = "idle") =>
                   DOMAIN session_start_times = ticks[k].names

C13_Witness ==
    /\ ~store_up
    /\ pollPc = "idle"
    /\ now <= OfflineThreshold
    /\ Len(ticks) >= 2
    /\ LET last == ticks[Len(ticks)]
       IN  /\ last.done /\ last.online
           /\ last.names \ last.tracked_before # {}
           /\ last.tracked_before \ last.names # {}
           /\ last.log_end = last.log_start
           /\ Keys(current_players) = last.names
           /\ DOMAIN session_start_times = last.names

(* A step of update_server_status that takes the answers of the source. *)
TakesAnswers == response # Pending /\ response' = Pending

(* The request timed out, met a status other than 200, or got a body that  *)
(* holds no JSON.                                                          *)
FetchFails(a) ==
    \/ a.kind = "timeout"
    \/ a.kind = "http" /\ a.status # 200
    \/ a.kind = "http" /\ a.status = 200 /\ a.text \in {"blank", "text"}

(* C14: when the status request times out, meets a status other than 200   *)
(* or gets unparseable data, the tick works on the offline snapshot, marks *)
(* the server offline and returns, and the next tick stays scheduled one   *)
(* interval later.                                                         *)
C14_FailedFetchIsOffline ==
    [][ (TakesAnswers /\ FetchFails(response.dynamic)) =>
            /\ Len(ticks') = Len(ticks) + 1
            /\ ~ticks'[Len(ticks')].online
            /\ ticks'[Len(ticks')].done
            /\ ~server_data'.online
            /\ ~server_status'.online
            /\ ~last_server_online'
            /\ pollPc' = "idle"
            /\ nextPoll' = nextPoll + PollInterval
      ]_vars

(* The tick after a failed fetch ran as usual: it continued the sessions   *)
(* of the players tracked before the failure and credited them.            *)
C14_Witness ==
    /\ response = Pending
    /\ pollPc = "idle"
    /\ Len(ticks) >= 3
    /\ LET k == Len(ticks)
       IN  /\ ticks[k - 2].online /\ ~ticks[k - 1].online /\ ticks[k].online
           /\ ticks[k].done
           /\ ticks[k].names # {}
           /\ ticks[k].names = ticks[k - 2].names
           /\ Keys(current_players) = ticks[k].names
           /\ \A n \in ticks[k].names :
                  /\ TickEvents(k, "join", n) = {}
                  /\ n \in DOMAIN players
                  /\ players[n].playtime >= SessionIncrement

(* The status request succeeded. *)
StatusOk(a) ==
    /\ a.kind = "http" /\ a.status = 200 /\ a.text \in {"json", "html"}
    /\ a.data.type = "dict" /\ ~a.data.empty
    /\ a.data.vars_dict /\ a.data.clients # NoValue

(* The request failed, or its body is not JSON of the given type. *)
Misses(a, type) ==
    \/ a.kind # "http"
    \/ a.status # 200
    \/ a.text \notin {"json", "html"}
    \/ a.data.type # type

(* C15: when the status request succeeds and the roster request or the     *)
(* info request fails, times out or returns the wrong shape, the tick      *)
(* works on an online snapshot with the status fields of the answer, an    *)
(* empty roster for a failed roster and no resources and vars for a failed *)
(* info, and runs on.  The ping among the status fields is the one the     *)
(* status request computed on this host.                                   *)
C15_PartialFailureKeepsStatus ==
    [][ (/\ TakesAnswers
         /\ StatusOk(response.dynamic)
         /\ \/ response.slow
            \/ Misses(response.players, "list")
            \/ Misses(response.info, "dict")) =>
            /\ server_data'.online
            /\ server_data'.clients = response.dynamic.data.clients
            /\ server_data'.ping = ServerPing - 1000 * UtcOffset
            /\ server_status'.online
            /\ Len(ticks') = Len(ticks) + 1
            /\ ticks'[Len(ticks')].online
            /\ (response.slow \/ Misses(response.players, "list")) =>
                   /\ server_data'.players = <<>>
                   /\ pollPc' = "idle"
                   /\ last_server_online'
            /\ (response.slow \/ Misses(response.info, "dict")) =>
                   /\ server_data'.resources = <<>>
                   /\ server_data'.server_vars = {}
      ]_vars

C15_Witness ==
    /\ response = Pending
    /\ pollPc = "idle"
    /\ server_data.online
    /\ server_data.clients = 1
    /\ server_data.players = <<>>
    /\ server_data.resources # <<>>
    /\ last_server_online
    /\ Len(ticks) >= 1
    /\ ticks[Len(ticks)].online /\ ticks[Len(ticks)].done

(* Positions of the roster entries of the latest snapshot that bear name n. *)
Occurrences(n) ==
    {i \in DOMAIN server_data.players : server_data.players[i].name = n}

FirstOccurrence(n) ==
    server_data.players[CHOOSE i \in Occurrences(n) :
                            \A j \in Occurrences(n) : i <= j]

(* C16: after a tick whose roster lists a name more than once, the name    *)
(* has at most one join event of that tick, its record was credited 0 s by *)
(* the tick if it joined in it and 30 s otherwise, and the tracked ping is *)
(* that of the first occurrence.                                           *)
C16_DuplicatesFirstWins ==
    (pollPc = "idle" /\ Len(ticks) >= 1 /\ ticks[Len(ticks)].online) =>
        LET k == Len(ticks)
        IN  \A n \in Names :
                (Cardinality(Occurrences(n)) > 1 /\ Tracked(n)) =>
                    /\ Cardinality(TickEvents(k, "join", n)) <= 1
                    /\ Get(current_players, n).ping = FirstOccurrence(n).ping
                    /\ n \in DOMAIN players =>
                           players[n].playtime
                             - (IF n \in DOMAIN ticks[k].playtime_before
                                THEN ticks[k].playtime_before[n] ELSE 0)
                           = (IF n \in ticks[k].tracked_before
                              THEN SessionIncrement ELSE 0)

Sentinels == {"", "Unknown", "null"}

RawNames(a) == {a.data.items[i].name : i \in DOMAIN a.data.items}

(* C17: a reported name that is empty, "Unknown" or "null" is never a key  *)
(* of the tracking maps, of a record or of an event; every other reported  *)
(* name is taken as it is: the roster a tick works on has exactly the      *)
(* reported names that are not one of the three.                           *)
C17_ExactlySentinelsExcluded ==
    /\ [](\A n \in Sentinels :
             /\ ~Tracked(n)
             /\ n \notin DOMAIN session_start_times
             /\ n \notin DOMAIN players
             /\ n \notin previous_players
             /\ EventsOf("join", n) = {} /\ EventsOf("leave", n) = {})
    /\ [][ (/\ TakesAnswers
             /\ StatusOk(response.dynamic)
             /\ ~response.slow
             /\ ~Misses(response.players, "list")) =>
                {server_data'.players[i].name : i \in DOMAIN server_data'.players}
                    = RawNames(response.players) \ Sentinels
         ]_vars

JoinsLogged(n) == Cardinality(EventsOf("join", n))

TotalSessions(n) == IF n \in DOMAIN players THEN players[n].totalSessions ELSE 0

C19_JoinCountsSession ==
    /\ [](\A n \in Names : TotalSessions(n) = JoinsLogged(n))
    /\ [][ \A n \in Names :
              TotalSessions(n)' - TotalSessions(n) = JoinsLogged(n)' - JoinsLogged(n)
         ]_vars

(* C20: after any sequence of upsert_player calls the playtime of a       *)
(* record is the sum of the session times passed for its name, the first   *)
(* call creates the record with its own session time, and 10 then 20       *)
(* gives 30.                                                               *)
SessionTimesOf(n) ==
    LET calls == SelectSeq(upsert_calls, LAMBDA c : c.name = n)
    IN  [i \in DOMAIN calls |-> calls[i].session_time]

C20_UpsertAddsSessionTime ==
    \A n \in Names :
        IF SessionTimesOf(n) = <<>>
        THEN n \notin DOMAIN players
        ELSE /\ n \in DOMAIN players
             /\ players[n].playtime = SumSeq(SessionTimesOf(n))
             /\ SessionTimesOf(n) = <<10, 20>> => players[n].playtime = 30

C20_Witness ==
    /\ SessionTimesOf("A") = <<10, 20>>
    /\ players["A"].playtime = 30

(* C21: get_ping_stats(hours) returns None, never a dictionary of zeroes,  *)
(* when no sample is inside the window; otherwise its low, avg and high    *)
(* are the arithmetic means of the samples' fields.                        *)
RECURSIVE Total(_, _)
Total(S, f) ==
    IF S = {} THEN 0
    ELSE LET i == CHOOSE i \in S : TRUE IN f[i] + Total(S \ {i}, f)

InWindow(hours) ==
    {i \in DOMAIN ping_logs : ping_logs[i].timestamp >= now - hours * Hour}

TotalLow(S) == Total(S, [i \in S |-> ping_logs[i].low])

TotalAvg(S) == Total(S, [i \in S |-> ping_logs[i].avg])

TotalHigh(S) == Total(S, [i \in S |-> ping_logs[i].high])

C21_PingStatsNoneOrMeans ==
    query.op = "get_ping_stats" =>
        LET S == InWindow(query.arg)
            n == Cardinality(S)
        IN  IF n = 0 THEN result.none
            ELSE /\ ~result.none
                 /\ result.low * n = 10 * TotalLow(S)
                 /\ result.avg * n = 10 * TotalAvg(S)
                 /\ result.high * n = 10 * TotalHigh(S)

(* C21, amended: the low, avg and high of the answer are the arithmetic    *)
(* means rounded to one decimal.                                           *)
NearestTenth(r, total, n) == 2 * Abs(r * n - 10 * total) <= n

C21_PingStatsNoneOrRoundedMeans ==
    query.op = "get_ping_stats" =>
        LET S == InWindow(query.arg)
            n == Cardinality(S)
        IN  IF n = 0 THEN result.none
            ELSE /\ ~result.none
                 /\ NearestTenth(result.low, TotalLow(S), n)
                 /\ NearestTenth(result.avg, TotalAvg(S), n)
                 /\ NearestTenth(result.high, TotalHigh(S), n)

C21_Witness ==
    /\ query.op = "get_ping_stats"
    /\ Cardinality(InWindow(query.arg)) = 3
    /\ TotalLow(InWindow(query.arg)) = 140
    /\ ~result.none
    /\ result.low = 467

(* C22: a caller of get_ping_stats keeps the no-data answer apart from a   *)
(* zero: get_server_stats does not report an average ping of 0 when no     *)
(* sample is inside its window.                                            *)
C22_NoDataIsNotZero ==
    (query.op = "get_server_stats" /\ InWindow(query.arg * 24) = {}) =>
        result.avg_ping # 0

(* C23: _calculate_peak_players(days) returns the largest size the        *)
(* running set reaches when the events inside the window are replayed in   *)
(* order of time, a join putting the name in and a leave taking it out;    *)
(* join(A), join(B), leave(A), join(C) gives 2; with no event inside the   *)
(* window it returns the number of tracked players.                        *)
EventsInWindow(days) ==
    {i \in DOMAIN event_logs : event_logs[i].timestamp >= now - days * Day}

(* The names in the running set after the events of S up to event j. *)
RunningSet(S, j) ==
    {n \in Names :
        \E i \in S :
            /\ i <= j
            /\ event_logs[i].event_type = "join"
            /\ event_logs[i].player_name = n
            /\ ~\E k \in S : /\ i < k /\ k <= j
                               /\ event_logs[k].event_type = "leave"
                               /\ event_logs[k].player_name = n}

OnlineTicks == {k \in DOMAIN ticks : ticks[k].online}

C24_OneSamplePerOnlineTick ==
    pollPc = "idle" => Len(ping_logs) = Cardinality(OnlineTicks)

(* C25: the uptime percentage of a window is                              *)
(* min(100, actual samples / expected samples * 100), with expected        *)
(* samples = window seconds / 30; it lies between 0 and 100 and is 100     *)
(* whenever at least the expected number of samples exists.                *)
ActualSamples(days) == Cardinality(InWindow(days * 24))

ExpectedSamples(days) == (days * Day) \div PollInterval

C25_UptimeIsCappedRatio ==
    query.op = "_calculate_uptime_percentage" =>
        LET actual == ActualSamples(query.arg)
            expected == ExpectedSamples(query.arg)
        IN  /\ 0 <= result.value /\ result.value <= 1000
            /\ actual >= expected => result.value = 1000
            /\ actual < expected => result.value * expected = 1000 * actual

(* C25, amended: the percentage is that value rounded to one decimal. *)
C25_UptimeIsRoundedCappedRatio ==
    query.op = "_calculate_uptime_percentage" =>
        LET actual == ActualSamples(query.arg)
            expected == ExpectedSamples(query.arg)
        IN  /\ 0 <= result.value /\ result.value <= 1000
            /\ actual >= expected => result.value = 1000
            /\ actual < expected =>
                   NearestTenth(result.value, 100 * actual, expected)

C25_Witness ==
    /\ query.op = "_calculate_uptime_percentage"
    /\ query.arg = 1
    /\ Len(ping_logs) = 5
    /\ ActualSamples(1) = 3
    /\ result.value = 1

(* C26: cleanup_old_data deletes exactly the ping samples older than 30    *)
(* days and the events older than 90 days and sets the status inactive on  *)
(* exactly the player records last seen more than 30 days ago; no step of  *)
(* any operation removes a player record.                                  *)
Range(s) == {s[i] : i \in DOMAIN s}

KeptExactly(before, after, age) ==
    /\ Range(after) = {e \in Range(before) : now - e.timestamp <= age}
    /\ \A i, j \in DOMAIN after : i < j => after[i].timestamp < after[j].timestamp

C26_CleanupDeletesExactlyTheOld ==
    [][ /\ DOMAIN players \subseteq DOMAIN players'
        /\ (cleanupPc = "idle" /\ cleanupPc' = "pings") =>
               /\ KeptExactly(ping_logs, ping_logs', 30 * Day)
               /\ event_logs' = event_logs /\ players' = players
        /\ (cleanupPc = "pings" /\ cleanupPc' = "events") =>
               /\ KeptExactly(event_logs, event_logs', 90 * Day)
               /\ ping_logs' = ping_logs /\ players' = players
        /\ (cleanupPc = "events" /\ cleanupPc' = "idle") =>
               /\ ping_logs' = ping_logs /\ event_logs' = event_logs
               /\ \A n \in DOMAIN players :
                      IF now - players[n].lastSeen > 30 * Day
                      THEN players'[n] = [players[n] EXCEPT !.status = "inactive"]
                      ELSE players'[n] = players[n]
        /\ cleanupPc' = cleanupPc =>
               /\ Range(ping_logs) \subseteq Range(ping_logs')
               /\ Range(event_logs) \subseteq Range(event_logs')
      ]_vars

C26_Witness ==
    /\ query.op = "cleanup_old_data"
    /\ cleanupPc = "idle"
    /\ result.pings = 1 /\ Len(ping_logs) = 2
    /\ result.events = 1 /\ Len(event_logs) = 2
    /\ result.marked = 1
    /\ DOMAIN players = Names
    /\ players["A"].status = "inactive"
    /\ players["B"].status = NoStatus
    /\ players["B"].lastSeen = now - 30 * Day
    /\ players["C"].status = NoStatus

(* C27: when DISCORD_TOKEN, MONGODB_URI or FIVEM_BASE_URL is missing from  *)
(* the environment, start-up fails before a background task is started     *)
(* and before the bot connects.                                            *)
Required == {"DISCORD_TOKEN", "MONGODB_URI", "FIVEM_BASE_URL"}

C27_MissingSettingStopsStart ==
    (\E k \in Required : environ[k] = Missing) =>
        /\ startPc # "connected"
        /\ ~tasks_started

Accrued(n) ==
    LET k == Len(ticks)
    IN  (IF n \in DOMAIN players THEN players[n].playtime ELSE 0)
          - (IF n \in DOMAIN ticks[k].playtime_before
             THEN ticks[k].playtime_before[n] ELSE 0)

(* C29: when a tick of an online server has returned, a name of its roster *)
(* that was not tracked before the tick has accrued 0 s in it, and a name  *)
(* of its roster that was tracked has accrued exactly the 30 s of the poll *)
(* interval, however late the tick ran.                                    *)
C29_AccrualIsNominal ==
    (pollPc = "idle" /\ Len(ticks) >= 1 /\ ticks[Len(ticks)].online) =>
        \A n \in ticks[Len(ticks)].names :
            Accrued(n) = IF n \in ticks[Len(ticks)].tracked_before
                         THEN PollInterval ELSE 0

(* Positions of the join events of n that precede position i of the log. *)
JoinsBefore(i, n) ==
    {j \in 1..(i - 1) :
        event_logs[j].event_type = "join" /\ event_logs[j].player_name = n}

(* When the session that the leave event at position i closes was first    *)
(* observed: the time of the last join of that player logged before it.    *)
SessionStartedAt(i) ==
    LET J == JoinsBefore(i, event_logs[i].player_name)
    IN  event_logs[CHOOSE j \in J : \A k \in J : k <= j].timestamp

(* C30: every leave event in the log, written by a tick or by the reaper,  *)
(* has a session duration equal to the time it was written minus the time  *)
(* the session of its player was first observed.                           *)
C30_LeaveDurationFromSessionStart ==
    \A i \in DOMAIN event_logs :
        event_logs[i].event_type = "leave" =>
            /\ JoinsBefore(i, event_logs[i].player_name) # {}
            /\ event_logs[i].session_duration
                   = event_logs[i].timestamp - SessionStartedAt(i)

(* The tracked players whose ping is positive. *)
PositivePlayers == {n \in Keys(current_players) : Get(current_players, n).ping > 0}

RECURSIVE PingTotal(_)
PingTotal(S) ==
    IF S = {} THEN 0
    ELSE LET n == CHOOSE m \in S : TRUE
         IN  Get(current_players, n).ping + PingTotal(S \ {n})

(* C31: every sample written by log_ping_data on the tracker has low, avg  *)
(* and high equal to the minimum, the arithmetic mean and the maximum of   *)
(* the positive pings of the tracked players, or all three equal to the    *)
(* server ping when no tracked ping is positive; so low <= avg <= high.    *)
C31_SampleIsMinMeanMax ==
    \A i \in DOMAIN ping_logs :
        LET e == ping_logs[i]
            P == PositivePlayers
        IN  /\ e.low <= e.avg /\ e.avg <= e.high
            /\ IF P = {}
               THEN e.low = e.server_ping /\ e.avg = e.server_ping
                    /\ e.high = e.server_ping
               ELSE /\ \E n \in P : Get(current_players, n).ping = e.low
                    /\ \A n \in P : e.low <= Get(current_players, n).ping
                    /\ \E n \in P : Get(current_players, n).ping = e.high
                    /\ \A n \in P : Get(current_players, n).ping <= e.high
                    /\ e.avg * Cardinality(P) = PingTotal(P)

C31_Witness ==
    /\ Len(ping_logs) >= 1
    /\ Cardinality(Keys(current_players)) = 3
    /\ Cardinality(PositivePlayers) = 2
    /\ ping_logs[1].low = 20
    /\ ping_logs[1].avg = 40
    /\ ping_logs[1].high = 60
    /\ ping_logs[1].server_ping = 300

(* The step of the last cleanup run that raised, if one did. *)
FailedStep == IF result.none /\ result # NoResult THEN result.failed ELSE NoName

(* C32: the three steps of cleanup_old_data are independent: when a run    *)
(* has returned, every step that did not itself fail has taken effect: no  *)
(* ping sample older than 30 days is left unless the delete of samples     *)
(* failed, no event older than 90 days unless the delete of events failed, *)
(* and no player unseen for more than 30 days is left unmarked unless the  *)
(* update of players failed.                                               *)
C32_CleanupStepsAreIndependent ==
    (cleanupPc = "idle" /\ query.op = "cleanup_old_data") =>
        /\ FailedStep # "ping_logs" =>
               \A i \in DOMAIN ping_logs : now - ping_logs[i].timestamp <= 30 * Day
        /\ FailedStep # "event_logs" =>
               \A i \in DOMAIN event_logs : now - event_logs[i].timestamp <= 90 * Day
        /\ FailedStep # "players" =>
               \A n \in DOMAIN players :
                   now - players[n].lastSeen > 30 * Day =>
                       players[n].status = "inactive"

(* C33: in every step, a player record that exists stays, keeps its       *)
(* firstSeen, has a playtime that did not decrease, and has a totalSessions *)
(* that is what it was or one more.                                        *)
C33_RecordOnlyGrows ==
    [][\A n \in DOMAIN players :
           /\ n \in DOMAIN players'
           /\ players'[n].firstSeen = players[n].firstSeen
           /\ players'[n].playtime >= players[n].playtime
           /\ players'[n].totalSessions - players[n].totalSessions \in {0, 1}]_vars

C33_Witness ==
    /\ DOMAIN players = {"A", "B"}
    /\ players["A"].firstSeen = 0
    /\ players["A"].lastSeen = now
    /\ players["A"].playtime = 90
    /\ players["A"].totalSessions = 3
    /\ players["B"].firstSeen = now
    /\ players["B"].playtime = SessionIncrement
    /\ players["B"].totalSessions = 1
    /\ query.op = "cleanup_old_data"

(* C34: in every state, for every player, the log holds no more leave      *)
(* events than join events.                                                *)
C34_LeavesNeverExceedJoins ==
    \A n \in Names :
        Cardinality(EventsOf("leave", n)) <= Cardinality(EventsOf("join", n))

(* The names with an event of a type among positions S of a log. *)
NamesLogged(log, S, type) ==
    {log[i].player_name : i \in {j \in S : log[j].event_type = type}}

(* C35: the two trackers detect the same transitions.  In the step in      *)
(* which check_player_changes ends a tick, the names it logs a join (a     *)
(* leave) for are the names update_player_data logged a join (a leave)     *)
(* for in that tick, and afterwards previous_players is the key set of     *)
(* current_players.                                                        *)
C35_TrackersAgree ==
    [][(pollPc = "ping" /\ pollPc' = "idle") =>
          LET analytics == {i \in (ticks[Len(ticks)].log_start + 1)..Len(event_logs) :
                               event_logs[i].reason # "timeout"}
              notifier == (Len(event_logs) + 1)..Len(event_logs')
          IN  /\ NamesLogged(event_logs, analytics, "join")
                     = NamesLogged(event_logs', notifier, "join")
              /\ NamesLogged(event_logs, analytics, "leave")
                     = NamesLogged(event_logs', notifier, "leave")
              /\ previous_players' = Keys(current_players')]_vars

(* C36: the statuses update_server_status passes to                        *)
(* send_server_status_notification alternate, starting with "online": no   *)
(* two consecutive ones are equal, "online" is passed only in a step that  *)
(* starts with the server last known offline, and "offline" only in a step *)
(* that starts with it last known online.                                  *)
C36_StatusNotificationsAlternate ==
    /\ [](/\ status_sent # <<>> => status_sent[1] = "online"
          /\ \A i \in 1..(Len(status_sent) - 1) : status_sent[i] # status_sent[i + 1])
    /\ [][status_sent' # status_sent =>
              /\ Len(status_sent') = Len(status_sent) + 1
              /\ SubSeq(status_sent', 1, Len(status_sent)) = status_sent
              /\ status_sent'[Len(status_sent')] =
                     IF last_server_online THEN "offline" ELSE "online"
              /\ last_server_online' = ~last_server_online]_vars

C36_Witness ==
    /\ status_sent = <<"online", "offline", "online">>
    /\ Len(ticks) >= 4
    /\ \E k \in DOMAIN ticks : ticks[k].online /\ ticks[k].names = {}

(* C37: a record with status inactive is the record of a player who has   *)
(* not been seen since it was marked: its lastSeen is still more than 30   *)
(* days old, so a player seen again is no longer inactive.                 *)
C37_InactiveMeansUnseen ==
    \A n \in DOMAIN players :
        players[n].status = "inactive" => now - players[n].lastSeen > 30 * Day

C39_PingIsElapsedTime ==
    (query.op = "get_server_status" /\ result.value.online) =>
        /\ result.value.ping = query.arg.elapsed
        /\ result.value.ping >= 0

====
